---- MODULE Spec2Model ----
(***************************************************************************)
(* Super-Reconciliation: the synteny primitives, the ordered (dynamic      *)
(* programming) and unordered (three passes) reconciliation engines, the   *)
(* erasure step, the simulator and the evaluation step, as state machines  *)
(* over event trees.                                                       *)
(*                                                                         *)
(* An event tree is a nested record                                        *)
(*   [type, synteny, segment, children]                                    *)
(* where children is a sequence of event trees.  A node of the input tree  *)
(* is identified by its path (the sequence of child indices from the       *)
(* root); the side tables keyed by Event* in the source are keyed by path. *)
(***************************************************************************)
EXTENDS Integers, Sequences, FiniteSets, TLC

VARIABLES
    algo,                 \* "ordered" | "unordered": the engine (use_unordered)
    pc,                   \* position of the run
    input,                \* the tree handed to the reconciliation engine
    tree,                 \* the tree being rewritten in place
    reference,            \* evaluate: the simulated reference tree
    post_idx,             \* ordered: index of the next node of the postorder DP loop
    candidates_per_node,  \* ordered: path -> CandidateMapping
    candidates,           \* ordered: the CandidateMapping local of the last DP iteration
    info,                 \* unordered: path -> TreeInfoValue
    error,                \* message class of the exception thrown, or "none"
    freed_access,         \* traceback touched a node after erase_children freed it
    scores,               \* evaluate: [ref, rec] DL-scores
    params,               \* evaluate: the SimulationParams of the sample
    operands,             \* a call of one primitive: the operation and its arguments
    outcome,              \* a call of one primitive: what it returned or threw
    main_pc,              \* main of evaluate: position of the initial thread
    next_task,            \* main: iterations of the collapsed loop handed out so far
    thread_pc,            \* main: thread -> position in the body of the loop
    sample_params,        \* main: thread -> grid point of its work unit
    sample_info,          \* main: thread -> the dlscore its evaluation measured
    began_failed,         \* main: thread -> has_failed was set when its unit began
    has_failed,           \* main: the shared flag, as last written
    synchronised,         \* main: threads ordered after the write of has_failed
    flushed,              \* main: the write of has_failed was flushed by a critical
    critical_owner,       \* main: thread inside the critical construct, or 0
    results,              \* main: the shared json array
    find_params_index,    \* main: grid point -> 0-based index in results
    performed_tasks,      \* main: the shared counter
    threw,                \* main: number of evaluations that threw
    exit_status,          \* main: "none" | "EXIT_SUCCESS" | "EXIT_FAILURE"
    output_written,       \* main: args.output was written
    args                  \* main: the Arguments read from the command line

\* the state of a run of an engine, of evaluate or of erase
engine_vars == <<algo, pc, input, tree, reference, post_idx,
                 candidates_per_node, candidates, info, error, freed_access,
                 scores, params>>

\* the state of a call of one primitive
call_vars == <<operands, outcome>>

\* the state of main of evaluate
main_vars == <<main_pc, next_task, thread_pc, sample_params, sample_info,
               began_failed, has_failed, synchronised, flushed,
               critical_owner, results, find_params_index, performed_tasks,
               threw, exit_status, output_written, args>>

vars == <<engine_vars, call_vars, main_vars>>

(***************************************************************************)
(* main of evaluate before its parallel loop.                              *)
(***************************************************************************)
\* omp_set_num_threads(args.jobs)
NumThreads == 2

Threads == 1..NumThreads

NoThread == 0

\* no grid point: a thread between two work units
NoParams == 0

\* no command line was read
NoArguments == [sample_size |-> 0, depth |-> <<>>]

MainBeforeLoop ==
    /\ main_pc = "parallel_for"
    /\ next_task = 0
    /\ thread_pc = [t \in Threads |-> "next"]
    /\ sample_params = [t \in Threads |-> NoParams]
    /\ sample_info = [t \in Threads |-> [dlscore |-> 0]]
    /\ began_failed = [t \in Threads |-> FALSE]
    /\ has_failed = FALSE
    /\ synchronised = {}
    /\ flushed = FALSE
    /\ critical_owner = NoThread
    /\ results = <<>>
    /\ find_params_index = <<>>
    /\ performed_tasks = 0
    /\ threw = 0
    /\ exit_status = "none"
    /\ output_written = FALSE

(***************************************************************************)
(* ExtendedNumber<int>: the part the dynamic program uses.                 *)
(***************************************************************************)
ExtendedNumber(v) == [value |-> v, infinity_flag |-> FALSE]

positiveInfinity == [value |-> 1, infinity_flag |-> TRUE]

negativeInfinity == [value |-> -1, infinity_flag |-> TRUE]

isPositiveInfinity(x) == x.infinity_flag /\ x.value > 0

isNegativeInfinity(x) == x.infinity_flag /\ x.value < 0

isInfinity(x) == x.infinity_flag

\* operator<
ExtLess(lhs, rhs) ==
    IF isPositiveInfinity(lhs) \/ isNegativeInfinity(rhs) THEN FALSE
    ELSE IF isNegativeInfinity(lhs) \/ isPositiveInfinity(rhs) THEN TRUE
    ELSE lhs.value < rhs.value

\* operator==
ExtEq(lhs, rhs) ==
    IF lhs.infinity_flag /\ rhs.infinity_flag
    THEN isPositiveInfinity(lhs) = isPositiveInfinity(rhs)
    ELSE IF ~lhs.infinity_flag /\ ~rhs.infinity_flag
    THEN lhs.value = rhs.value
    ELSE FALSE

\* operator<=
ExtLeq(lhs, rhs) == ExtEq(lhs, rhs) \/ ExtLess(lhs, rhs)

\* operator+= ; "undefined" stands for the std::domain_error thrown
ExtAdd(lhs, rhs) ==
    IF ~lhs.infinity_flag /\ ~rhs.infinity_flag
    THEN ExtendedNumber(lhs.value + rhs.value)
    ELSE IF (isPositiveInfinity(lhs) /\ ~isNegativeInfinity(rhs))
            \/ (isNegativeInfinity(lhs) /\ ~isPositiveInfinity(rhs))
    THEN lhs
    ELSE IF (isPositiveInfinity(rhs) /\ ~isNegativeInfinity(lhs))
            \/ (isNegativeInfinity(rhs) /\ ~isPositiveInfinity(lhs))
    THEN rhs
    ELSE [value |-> 0, infinity_flag |-> TRUE]

\* the marker ExtAdd returns where operator+= throws std::domain_error
IsUndefined(x) == x.infinity_flag /\ x.value = 0

Undefined == [value |-> 0, infinity_flag |-> TRUE]

\* static_cast<T>(std::copysign(1, v))
copysign(v) == IF v < 0 THEN -1 ELSE 1

Abs(v) == IF v < 0 THEN -v ELSE v

\* the built-in / of int truncates towards zero
TruncatedDiv(a, b) == copysign(a) * copysign(b) * (Abs(a) \div Abs(b))

\* unary operator-
ExtNeg(x) == [value |-> -x.value, infinity_flag |-> x.infinity_flag]

\* operator-= with the right operand's sign left alone: a mutant of ExtSub
ExtSub_unsigned(lhs, rhs) ==
    IF ~lhs.infinity_flag /\ ~rhs.infinity_flag
    THEN ExtendedNumber(lhs.value - rhs.value)
    ELSE IF (isPositiveInfinity(lhs) /\ ~isPositiveInfinity(rhs))
            \/ (isNegativeInfinity(lhs) /\ ~isNegativeInfinity(rhs))
    THEN ExtNeg(lhs)
    ELSE IF (isPositiveInfinity(rhs) /\ ~isPositiveInfinity(lhs))
            \/ (isNegativeInfinity(rhs) /\ ~isNegativeInfinity(lhs))
    THEN ExtNeg(rhs)
    ELSE Undefined

\* operator-=
ExtSub(lhs, rhs) ==
    IF ~lhs.infinity_flag /\ ~rhs.infinity_flag
    THEN ExtendedNumber(lhs.value - rhs.value)
    ELSE IF (isPositiveInfinity(lhs) /\ ~isPositiveInfinity(rhs))
            \/ (isNegativeInfinity(lhs) /\ ~isNegativeInfinity(rhs))
    THEN lhs
    ELSE IF (isPositiveInfinity(rhs) /\ ~isPositiveInfinity(lhs))
            \/ (isNegativeInfinity(rhs) /\ ~isNegativeInfinity(lhs))
    THEN ExtNeg(rhs)
    ELSE Undefined

\* operator*= without the tests for a zero factor: a mutant of ExtMul
ExtMul_unchecked(lhs, rhs) ==
    IF ~lhs.infinity_flag /\ ~rhs.infinity_flag
    THEN ExtendedNumber(lhs.value * rhs.value)
    ELSE IF ~lhs.infinity_flag
    THEN [value |-> rhs.value * copysign(lhs.value), infinity_flag |-> TRUE]
    ELSE IF ~rhs.infinity_flag
    THEN [value |-> lhs.value * copysign(rhs.value), infinity_flag |-> TRUE]
    ELSE [value |-> lhs.value * rhs.value, infinity_flag |-> TRUE]

\* operator*=
ExtMul(lhs, rhs) ==
    IF ~lhs.infinity_flag /\ ~rhs.infinity_flag
    THEN ExtendedNumber(lhs.value * rhs.value)
    ELSE IF ~lhs.infinity_flag /\ lhs.value # 0
    THEN [value |-> rhs.value * copysign(lhs.value), infinity_flag |-> TRUE]
    ELSE IF ~rhs.infinity_flag /\ rhs.value # 0
    THEN [value |-> lhs.value * copysign(rhs.value), infinity_flag |-> TRUE]
    ELSE IF lhs.infinity_flag /\ rhs.infinity_flag
    THEN [value |-> lhs.value * rhs.value, infinity_flag |-> TRUE]
    ELSE Undefined

\* operator/=
ExtDiv(lhs, rhs) ==
    IF ~lhs.infinity_flag /\ ~rhs.infinity_flag /\ rhs.value # 0
    THEN ExtendedNumber(TruncatedDiv(lhs.value, rhs.value))
    ELSE IF ~lhs.infinity_flag /\ rhs.infinity_flag
    THEN ExtendedNumber(0)
    ELSE IF ~rhs.infinity_flag /\ rhs.value # 0
    THEN [value |-> lhs.value * copysign(rhs.value), infinity_flag |-> TRUE]
    ELSE Undefined

(***************************************************************************)
(* Synteny: a sequence of gene families.  A segment is a pair              *)
(* <<first, second>> of 0-based positions, the interval [first, second).   *)
(***************************************************************************)
NoSegment == <<0, 0>>

\* std::list::erase(first, second) on 0-based positions
EraseSegment(synteny, segment) ==
    SubSeq(synteny, 1, segment[1]) \o SubSeq(synteny, segment[2] + 1, Len(synteny))

\* the contiguous slice synteny[first..second)
Slice(synteny, segment) == SubSeq(synteny, segment[1] + 1, segment[2])

\* an enumeration that keeps each synteny once
RECURSIVE generateSubsequences_once(_)
generateSubsequences_once(synteny) ==
    IF synteny = <<>> THEN <<<<>>>>
    ELSE LET result_rest == generateSubsequences_once(Tail(synteny))
             fresh == SelectSeq(result_rest,
                                LAMBDA s : \A i \in DOMAIN result_rest :
                                    result_rest[i] # <<Head(synteny)>> \o s)
         IN  result_rest
                \o [i \in DOMAIN fresh |-> <<Head(synteny)>> \o fresh[i]]

\* Synteny::generateSubsequences: the vector, in the order the code builds it
RECURSIVE generateSubsequences(_)
generateSubsequences(synteny) ==
    IF synteny = <<>> THEN << <<>> >>
    ELSE LET result_rest == generateSubsequences(Tail(synteny))
             n == Len(result_rest)
         IN  [i \in 1..(2 * n) |->
                IF i % 2 = 1 THEN result_rest[(i + 1) \div 2]
                ELSE <<Head(synteny)>> \o result_rest[i \div 2]]

Range(f) == {f[i] : i \in DOMAIN f}

\* Synteny::reconcile, the while loop.  it_base, it_target and it_start are
\* 1-based positions; Len + 1 is the end iterator.
RECURSIVE reconcile_loop(_, _, _, _, _, _, _, _, _)
reconcile_loop(base, target, substring, max, it_base, it_target, lost_segments, coincides, it_start) ==
    IF ~(ExtLess(ExtendedNumber(Len(lost_segments)), max)
         /\ it_base # Len(base) + 1
         /\ it_target # Len(target) + 1)
    THEN [it_base |-> it_base, it_target |-> it_target,
          lost_segments |-> lost_segments]
    ELSE IF base[it_base] # target[it_target]
    THEN reconcile_loop(base, target, substring, max, it_base + 1, it_target,
                        lost_segments, FALSE,
                        IF coincides THEN it_base ELSE it_start)
    ELSE IF coincides
    THEN reconcile_loop(base, target, substring, max, it_base + 1,
                        it_target + 1, lost_segments, TRUE, it_start)
    ELSE reconcile_loop(base, target, substring, max, it_base, it_target,
                        IF ~substring \/ it_start # 1
                        THEN Append(lost_segments, <<it_start - 1, it_base - 1>>)
                        ELSE lost_segments,
                        TRUE, it_start)

\* Synteny::reconcile: [throws, lost_segments]
reconcile(base, target, substring, max) ==
    LET r == reconcile_loop(base, target, substring, max, 1, 1, <<>>, TRUE,
                            Len(base) + 1)
    IN  IF r.it_base = Len(base) + 1 /\ r.it_target # Len(target) + 1
        THEN [throws |-> TRUE, lost_segments |-> <<>>]
        ELSE IF r.it_base # Len(base) + 1 /\ r.it_target = Len(target) + 1
                /\ ~substring
        THEN [throws |-> FALSE,
              lost_segments |-> Append(r.lost_segments,
                                       <<r.it_base - 1, Len(base)>>)]
        ELSE [throws |-> FALSE, lost_segments |-> r.lost_segments]

\* a distance that counts the genes lost rather than the segments
distanceTo_genes(base, target, substring) == Len(base) - Len(target)

\* the loss distance without the substring mode
distanceTo_total(base, target, substring) ==
    Len(reconcile(base, target, FALSE, positiveInfinity).lost_segments)

\* Synteny::distanceTo (the target is a subsequence wherever the engines call it)
distanceTo(base, target, substring) ==
    Len(reconcile(base, target, substring, positiveInfinity).lost_segments)

(***************************************************************************)
(* Event trees.                                                            *)
(***************************************************************************)
Event(type, synteny, segment, children) ==
    [type |-> type, synteny |-> synteny, segment |-> segment,
     children |-> children]

number_of_children(node) == Len(node.children)

\* the node of t the path p leads to
RECURSIVE NodeAt(_, _)
NodeAt(t, p) ==
    IF p = <<>> THEN t ELSE NodeAt(t.children[Head(p)], Tail(p))

\* tree::begin_post .. end_post: the paths of t in postorder
RECURSIVE PostOrderFrom(_, _, _)
RECURSIVE PostOrder(_, _)
PostOrder(t, p) == PostOrderFrom(t, p, 1) \o <<p>>

PostOrderFrom(t, p, i) ==
    IF i > Len(t.children) THEN <<>>
    ELSE PostOrder(t.children[i], Append(p, i)) \o PostOrderFrom(t, p, i + 1)

\* every node of t (the set of subtrees, with their position forgotten)
RECURSIVE Nodes(_)
Nodes(t) == {t} \cup UNION {Nodes(t.children[i]) : i \in DOMAIN t.children}

\* every edge <<parent, child>> of t
RECURSIVE Edges(_)
Edges(t) ==
    {<<t, t.children[i]>> : i \in DOMAIN t.children}
        \cup UNION {Edges(t.children[i]) : i \in DOMAIN t.children}

\* get_dl_score_helper
RECURSIVE get_dl_score_children(_, _)
RECURSIVE get_dl_score(_)
get_dl_score(root) ==
    (IF root.type = "Duplication" \/ root.type = "Loss" THEN 1 ELSE 0)
        + get_dl_score_children(root, 1)

get_dl_score_children(root, i) ==
    IF i > Len(root.children) THEN 0
    ELSE get_dl_score(root.children[i]) + get_dl_score_children(root, i + 1)

(***************************************************************************)
(* Ordered Super-Reconciliation: the dynamic program.                      *)
(* A Candidate is [cost, synteny_left, synteny_right, partial_left,        *)
(* partial_right]; a CandidateMapping maps each candidate synteny to one.  *)
(***************************************************************************)
Candidate(cost, synteny_left, synteny_right, partial_left, partial_right) ==
    [cost |-> cost, synteny_left |-> synteny_left,
     synteny_right |-> synteny_right, partial_left |-> partial_left,
     partial_right |-> partial_right]

\* leaves that take any candidate at no cost
LeafCandidates_free(node, possibilities) ==
    [candidate \in Range(possibilities) |->
        Candidate(ExtendedNumber(0), <<>>, <<>>, FALSE, FALSE)]

\* leaves: cost 0 for the synteny already affixed, +oo for every other one
LeafCandidates(node, possibilities) ==
    [candidate \in Range(possibilities) |->
        Candidate(IF candidate = node.synteny THEN ExtendedNumber(0)
                  ELSE positiveInfinity,
                  <<>>, <<>>, FALSE, FALSE)]

\* the loop over sub_possibilities for one child: the first sub-candidate of
\* least total cost and the first of least partial cost, under the strict
\* comparison of the code
RECURSIVE best_scan(_, _, _, _, _, _)
best_scan(candidate, child, child_candidates, sub_possibilities, i, best) ==
    IF i > Len(sub_possibilities) THEN best
    ELSE LET sub_candidate == sub_possibilities[i]
             total_dist == IF child.type # "Loss"
                           THEN distanceTo(candidate, sub_candidate, FALSE)
                           ELSE 0
             partial_dist == IF child.type # "Loss"
                             THEN distanceTo(candidate, sub_candidate, TRUE)
                             ELSE 0
             sub_cost == child_candidates[sub_candidate].cost
             total_cost == ExtAdd(ExtendedNumber(total_dist), sub_cost)
             partial_cost == ExtAdd(ExtendedNumber(partial_dist), sub_cost)
         IN  best_scan(candidate, child, child_candidates, sub_possibilities,
                       i + 1,
                       [total_cost |-> IF ExtLess(total_cost, best.total_cost)
                                       THEN total_cost ELSE best.total_cost,
                        total_synt |-> IF ExtLess(total_cost, best.total_cost)
                                       THEN sub_candidate ELSE best.total_synt,
                        partial_cost |->
                            IF ExtLess(partial_cost, best.partial_cost)
                            THEN partial_cost ELSE best.partial_cost,
                        partial_synt |->
                            IF ExtLess(partial_cost, best.partial_cost)
                            THEN sub_candidate ELSE best.partial_synt])

\* best_total_cost, best_total_synt, best_partial_cost, best_partial_synt of
\* one child under one candidate
best_of_child(candidate, child, child_candidates, sub_possibilities) ==
    best_scan(candidate, child, child_candidates, sub_possibilities, 1,
              [total_cost |-> positiveInfinity, total_synt |-> <<>>,
               partial_cost |-> positiveInfinity, partial_synt |-> <<>>])

\* the switch of the dynamic program without the segmental duplications
InternalCandidate_full(type, left, right) ==
    Candidate(IF type = "Speciation"
              THEN ExtAdd(left.total_cost, right.total_cost)
              ELSE ExtAdd(ExtendedNumber(1),
                          ExtAdd(left.total_cost, right.total_cost)),
              left.total_synt, right.total_synt, FALSE, FALSE)

\* the switch on the node type, for a Speciation or a Duplication
InternalCandidate(type, left, right) ==
    LET best_total_total == ExtAdd(left.total_cost, right.total_cost)
        best_total_partial == ExtAdd(left.total_cost, right.partial_cost)
        best_partial_total == ExtAdd(left.partial_cost, right.total_cost)
    IN  IF type = "Speciation"
        THEN Candidate(best_total_total, left.total_synt, right.total_synt,
                       FALSE, FALSE)
        ELSE IF ExtLeq(best_total_total, best_total_partial)
                /\ ExtLeq(best_total_total, best_partial_total)
        THEN Candidate(ExtAdd(ExtendedNumber(1), best_total_total),
                       left.total_synt, right.total_synt, FALSE, FALSE)
        ELSE IF ExtLeq(best_total_partial, best_total_total)
                /\ ExtLeq(best_total_partial, best_partial_total)
        THEN Candidate(ExtAdd(ExtendedNumber(1), best_total_partial),
                       left.total_synt, right.partial_synt, FALSE, TRUE)
        ELSE Candidate(ExtAdd(ExtendedNumber(1), best_partial_total),
                       left.partial_synt, right.total_synt, TRUE, FALSE)

\* internal nodes with two children: one Candidate per candidate synteny
InternalCandidates(node, possibilities, candidates_left, candidates_right) ==
    [candidate \in Range(possibilities) |->
        LET sub_possibilities == generateSubsequences(candidate)
        IN  InternalCandidate(
                node.type,
                best_of_child(candidate, node.children[1], candidates_left,
                              sub_possibilities),
                best_of_child(candidate, node.children[2], candidates_right,
                              sub_possibilities))]

\* every node with no or two children taken to be consistent
is_consistent_always(children_count, node, mapping) == children_count # 1

\* is_consistent at the end of one iteration of the postorder loop
is_consistent(children_count, node, mapping) ==
    IF children_count = 0
    THEN \E candidate \in DOMAIN mapping : candidate = node.synteny
    ELSE IF children_count = 2
    THEN \E candidate \in DOMAIN mapping : ~isInfinity(mapping[candidate].cost)
    ELSE FALSE


(***************************************************************************)
(* Ordered Super-Reconciliation: the traceback.                            *)
(***************************************************************************)
\* resolve_losses(tree, parent, child, substring).  child is the subtree in
\* the child's slot.  Result: erased, erase_children(parent) ran and parent
\* became a Loss; deleted, the child node was freed (by this call or by a
\* nested one); slot, the subtree now standing in the child's slot.
RECURSIVE resolve_losses(_, _, _)
\* resolve_losses that puts one Loss node at most above the child
resolve_losses_once(parent, child, substring) ==
    LET synteny_parent ==
            IF parent.type = "Loss"
            THEN EraseSegment(parent.synteny, parent.segment)
            ELSE parent.synteny
    IN  IF synteny_parent = <<>>
        THEN [erased |-> TRUE, deleted |-> TRUE, slot |-> child]
        ELSE LET losses == reconcile(synteny_parent, child.synteny, substring,
                                     ExtendedNumber(1)).lost_segments
             IN  IF Len(losses) >= 1
                 THEN [erased |-> FALSE, deleted |-> FALSE,
                       slot |-> Event("Loss", synteny_parent, losses[1],
                                      <<child>>)]
                 ELSE [erased |-> FALSE, deleted |-> FALSE, slot |-> child]

\* resolve_losses without the edge case of the empty parent
resolve_losses_kept(parent, child, substring) ==
    LET synteny_parent ==
            IF parent.type = "Loss"
            THEN EraseSegment(parent.synteny, parent.segment)
            ELSE parent.synteny
        losses == reconcile(synteny_parent, child.synteny, substring,
                            ExtendedNumber(1)).lost_segments
    IN  IF Len(losses) >= 1
        THEN LET new_node == Event("Loss", synteny_parent, losses[1],
                                   <<child>>)
                 r == resolve_losses(new_node, child, substring)
             IN  [erased |-> FALSE, deleted |-> FALSE,
                  slot |-> [new_node EXCEPT !.children = <<r.slot>>]]
        ELSE [erased |-> FALSE, deleted |-> FALSE, slot |-> child]

resolve_losses(parent, child, substring) ==
    LET synteny_parent ==
            IF parent.type = "Loss"
            THEN EraseSegment(parent.synteny, parent.segment)
            ELSE parent.synteny
    IN  IF synteny_parent = <<>>
        THEN [erased |-> TRUE, deleted |-> TRUE, slot |-> child]
        ELSE LET losses == reconcile(synteny_parent, child.synteny, substring,
                                     ExtendedNumber(1)).lost_segments
             IN  IF Len(losses) >= 1
                 THEN LET new_node == Event("Loss", synteny_parent, losses[1],
                                            <<child>>)
                          r == resolve_losses(new_node, child, substring)
                      IN  [erased |-> FALSE, deleted |-> r.deleted,
                           slot |-> IF r.erased
                                    THEN [new_node EXCEPT !.children = <<>>]
                                    ELSE [new_node EXCEPT
                                              !.children = <<r.slot>>]]
                 ELSE [erased |-> FALSE, deleted |-> FALSE, slot |-> child]

\* the loop of find_duplicated_segment over the losses
RECURSIVE trim_segment(_, _, _, _)
trim_segment(losses, i, max, result) ==
    IF i > Len(losses) THEN result
    ELSE LET loss == losses[i]
             r1 == IF loss[1] = 0 THEN <<loss[2], result[2]>> ELSE result
             r2 == IF loss[2] = max THEN <<r1[1], loss[1]>> ELSE r1
         IN  trim_segment(losses, i + 1, max, r2)

\* the duplicated segment taken to be the whole synteny
find_duplicated_segment_whole(synteny_parent, synteny_child) ==
    <<0, Len(synteny_parent)>>

find_duplicated_segment(synteny_parent, synteny_child) ==
    trim_segment(
        reconcile(synteny_parent, synteny_child, FALSE,
                  positiveInfinity).lost_segments,
        1, Len(synteny_parent), <<0, Len(synteny_parent)>>)

\* The preorder loop of super_reconciliation below the node at path p, whose
\* synteny is already assigned.  cpn is candidates_per_node.  Result: the
\* rewritten subtree, and freed, whether a freed node was read or written.
RECURSIVE traceback(_, _, _)
traceback(parent, p, cpn) ==
    IF number_of_children(parent) # 2
    THEN [tree |-> parent, freed |-> FALSE]
    ELSE
    LET synteny_parent == parent.synteny
        inf == cpn[p][synteny_parent]
        seg_left == IF inf.partial_left
                    THEN find_duplicated_segment(synteny_parent,
                                                 inf.synteny_left)
                    ELSE parent.segment
        seg == IF inf.partial_right
               THEN find_duplicated_segment(synteny_parent, inf.synteny_right)
               ELSE seg_left
        par == [parent EXCEPT !.segment = seg]
        child_left == [parent.children[1] EXCEPT !.synteny = inf.synteny_left]
        child_right == [parent.children[2] EXCEPT !.synteny = inf.synteny_right]
        sub_left == traceback(child_left, Append(p, 1), cpn)
        sub_right == traceback(child_right, Append(p, 2), cpn)
        res_left == resolve_losses(par, sub_left.tree, inf.partial_left)
        res_right == resolve_losses(par, sub_right.tree, inf.partial_right)
    IN  IF res_left.erased
        THEN \* erase_children(parent) freed both children; the code then
             \* assigns child_right->synteny and reads it in resolve_losses
             [tree |-> [par EXCEPT !.type = "Loss", !.children = <<>>],
              freed |-> TRUE]
        ELSE [tree |-> [par EXCEPT !.children = <<res_left.slot, res_right.slot>>],
              freed |-> (~res_left.deleted /\ sub_left.freed)
                        \/ (~res_right.deleted /\ sub_right.freed)]

(***************************************************************************)
(* Unordered Super-Reconciliation: the three passes.                       *)
(* A TreeInfoValue is [genes, should_propagate]; a TreeInfo maps each path *)
(* to one.  std::set<Gene> iterates in the order of GeneOrder.             *)
(***************************************************************************)
\* the gene families of the model, in the order std::set<std::string> keeps
GeneOrder == <<"a", "b", "c", "d", "x", "x'", "x''">>

GeneRank(gene) == CHOOSE i \in DOMAIN GeneOrder : GeneOrder[i] = gene

\* Synteny{std::cbegin(s), std::cend(s)} for a std::set<Gene> s
RECURSIVE SetToSynteny(_)
SetToSynteny(genes) ==
    IF genes = {} THEN <<>>
    ELSE LET first == CHOOSE g \in genes :
                          \A h \in genes : GeneRank(g) <= GeneRank(h)
         IN  <<first>> \o SetToSynteny(genes \ {first})

\* std::set<Gene>(cbegin(synteny), cend(synteny))
GenesOf(synteny) == Range(synteny)

\* the union of two gene sets taken to be the first of them
set_union_left(lhs, rhs) == lhs

\* util/set.hpp: operator+, operator-, operator&
set_union(lhs, rhs) == lhs \cup rhs

set_difference(lhs, rhs) == lhs \ rhs

set_intersection(lhs, rhs) == lhs \cap rhs

TreeInfoValue(genes, should_propagate) ==
    [genes |-> genes, should_propagate |-> should_propagate]

\* the flag with the first case split in two: both children smaller, or
\* both children propagable
should_propagate_split(parent, child_left, child_right, info_left, info_right, genes_union) ==
    \/ /\ info_left.genes # genes_union
       /\ info_right.genes # genes_union
    \/ /\ info_left.should_propagate
       /\ info_right.should_propagate
    \/ /\ parent.type = "Duplication"
       /\ \/ child_left.type = "Loss"
          \/ info_left.should_propagate
          \/ child_right.type = "Loss"
          \/ info_right.should_propagate
    \/ /\ info_left.should_propagate \/ child_left.type = "Loss"
       /\ info_right.should_propagate \/ child_right.type = "Loss"

\* initialize: the should_propagate flag of an internal node
should_propagate(parent, child_left, child_right, info_left, info_right, genes_union) ==
    \/ /\ info_left.genes # genes_union \/ info_left.should_propagate
       /\ info_right.genes # genes_union \/ info_right.should_propagate
    \/ /\ parent.type = "Duplication"
       /\ \/ child_left.type = "Loss"
          \/ info_left.should_propagate
          \/ child_right.type = "Loss"
          \/ info_right.should_propagate
    \/ /\ info_left.should_propagate \/ child_left.type = "Loss"
       /\ info_right.should_propagate \/ child_right.type = "Loss"

\* a node with exactly one child: initialize throws "Unexpected unary node."
HasUnaryNode(t) == \E n \in Nodes(t) : number_of_children(n) = 1

\* initialize, below the node at path p, on a tree without unary nodes
RECURSIVE initialize(_, _)
initialize(t, p) ==
    IF number_of_children(t) = 0
    THEN p :> TreeInfoValue(GenesOf(t.synteny), FALSE)
    ELSE LET below_left == initialize(t.children[1], Append(p, 1))
             below_right == initialize(t.children[2], Append(p, 2))
             info_left == below_left[Append(p, 1)]
             info_right == below_right[Append(p, 2)]
             genes_union == set_union(info_left.genes, info_right.genes)
         IN  (p :> TreeInfoValue(
                      genes_union,
                      should_propagate(t, t.children[1], t.children[2],
                                       info_left, info_right, genes_union)))
                 @@ below_left @@ below_right

\* propagate: the preorder loop below the node at path p
RECURSIVE propagate(_, _, _)
RECURSIVE propagate_below(_, _, _, _)
propagate(t, p, tree_info) ==
    LET copied ==
            [q \in DOMAIN tree_info |->
                IF /\ \E i \in DOMAIN t.children : q = Append(p, i)
                   /\ tree_info[q].should_propagate
                THEN [tree_info[q] EXCEPT !.genes = tree_info[p].genes]
                ELSE tree_info[q]]
    IN  propagate_below(t, p, 1, copied)

propagate_below(t, p, i, tree_info) ==
    IF i > Len(t.children) THEN tree_info
    ELSE propagate_below(t, p, i + 1,
                         propagate(t.children[i], Append(p, i), tree_info))

\* the Loss event given to the child itself instead of a node above it
wrap_loss_retype(synteny_parent, segment, child) ==
    [child EXCEPT !.type = "Loss", !.synteny = synteny_parent,
                  !.segment = segment]

\* the Loss node of the unordered engine, with the segment left empty
wrap_loss_empty(synteny_parent, segment, child) ==
    Event("Loss", synteny_parent, <<segment[1], segment[1]>>, <<child>>)

\* tree.wrap(child, loss) with the Loss node resolve builds
wrap_loss(synteny_parent, segment, child) ==
    Event("Loss", synteny_parent, segment, <<child>>)

\* resolve: one iteration of the postorder loop, at a node whose subtrees
\* were already resolved
resolve_node(parent, genes_parent, genes_left, genes_right) ==
    IF genes_parent = {}
    THEN [parent EXCEPT !.type = "Loss", !.children = <<>>]
    ELSE IF number_of_children(parent) # 2 THEN parent
    ELSE
    LET child_left == parent.children[1]
        child_right == parent.children[2]
        s1 == SetToSynteny(set_intersection(genes_left, genes_right))
        s2 == SetToSynteny(set_difference(genes_left, genes_right))
        s3 == SetToSynteny(set_difference(genes_parent,
                                          set_union(genes_left, genes_right)))
        s4 == SetToSynteny(set_difference(genes_right, genes_left))
        s1_size == Len(s1)
        s2_size == Len(s2)
        s3_size == Len(s3)
        s4_size == Len(s4)
        synteny_parent == s1 \o s2 \o s3 \o s4
        synteny_left == s1 \o s2
        synteny_right == s1 \o s4
        differs_left == synteny_left # synteny_parent
                            /\ child_left.type # "Loss"
        is_segmental_left == differs_left /\ parent.type = "Duplication"
        fits_right == parent.type = "Duplication" /\ ~is_segmental_left
        new_left ==
            IF differs_left /\ ~is_segmental_left
            THEN wrap_loss(synteny_parent,
                           <<s1_size + s2_size,
                             s1_size + s2_size + s3_size + s4_size>>,
                           child_left)
            ELSE child_left
        new_segment ==
            IF is_segmental_left THEN <<0, s1_size + s2_size>>
            ELSE IF fits_right
            THEN IF child_left.type = "Loss"
                 THEN <<s1_size + s2_size + s3_size,
                        s1_size + s2_size + s3_size + s4_size>>
                 ELSE <<0, s1_size>>
            ELSE parent.segment
        new_right ==
            IF ~fits_right /\ synteny_right # synteny_parent
                    /\ child_right.type # "Loss"
            THEN wrap_loss(synteny_parent,
                           <<s1_size, s1_size + s2_size + s3_size>>,
                           child_right)
            ELSE child_right
    IN  [parent EXCEPT !.synteny = synteny_parent,
                       !.segment = new_segment,
                       !.children = <<new_left, new_right>>]

\* resolve: the postorder loop below the node at path p
RECURSIVE resolve(_, _, _)
resolve(t, p, tree_info) ==
    LET resolved ==
            [t EXCEPT !.children =
                [i \in DOMAIN t.children |->
                    resolve(t.children[i], Append(p, i), tree_info)]]
    IN  resolve_node(resolved, tree_info[p].genes,
                     IF number_of_children(t) = 2
                     THEN tree_info[Append(p, 1)].genes ELSE {},
                     IF number_of_children(t) = 2
                     THEN tree_info[Append(p, 2)].genes ELSE {})

(***************************************************************************)
(* Erasure.                                                                *)
(***************************************************************************)
\* an erasure that spares the syntenies of the Duplication and Speciation
\* nodes
RECURSIVE erase_tree_sparing(_, _)
erase_tree_sparing(root, is_root) ==
    IF root.type = "None" THEN root
    ELSE IF root.type = "Loss"
    THEN IF number_of_children(root) # 0
         THEN erase_tree_sparing(root.children[1], FALSE)
         ELSE [root EXCEPT !.synteny = <<>>]
    ELSE [root EXCEPT
            !.children = <<erase_tree_sparing(root.children[1], FALSE),
                           erase_tree_sparing(root.children[2], FALSE)>>]

\* an erasure that removes a Loss node and stops at the child moved up
RECURSIVE erase_tree_once(_, _)
erase_tree_once(root, is_root) ==
    IF root.type = "None" THEN root
    ELSE IF root.type = "Loss"
    THEN IF number_of_children(root) # 0
         THEN root.children[1]
         ELSE [root EXCEPT !.synteny = <<>>]
    ELSE [root EXCEPT
            !.synteny = IF is_root THEN @ ELSE <<>>,
            !.children = <<erase_tree_once(root.children[1], FALSE),
                           erase_tree_once(root.children[2], FALSE)>>]

\* erase_tree(input, root, is_root): what it leaves at the position of root
RECURSIVE erase_tree(_, _)
erase_tree(root, is_root) ==
    IF root.type = "None" THEN root
    ELSE IF root.type = "Loss"
    THEN IF number_of_children(root) # 0
         THEN erase_tree(root.children[1], FALSE)
         ELSE [root EXCEPT !.synteny = <<>>]
    ELSE [root EXCEPT
            !.synteny = IF is_root THEN @ ELSE <<>>,
            !.children = <<erase_tree(root.children[1], FALSE),
                           erase_tree(root.children[2], FALSE)>>]

(***************************************************************************)
(* The simulator.  Every draw of the pseudo-random generator is a choice;  *)
(* a budget [losses, pairs] caps the Loss nodes and the rearranged pairs   *)
(* of one simulated tree.                                                  *)
(***************************************************************************)
\* p_rearr in percent: 100 means that no pair is ever rearranged
NeverRearranged == 100

\* most Loss nodes of a simulated tree
MaxSimulatedLosses == 1

\* most pairs rearranged in a simulated tree
MaxRearrangedPairs == 1

\* largest SimulationParams.depth
MaxDepth == 2

\* longest base synteny, generateDummy(MaxBase)
MaxBase == 4

\* longest base synteny simulated to the depth MaxDepth
ShortBase == 2

\* Synteny::generateDummy
generateDummy(length) == SubSeq(GeneOrder, 1, length)

SimulationParams(base, depth, p_rearr) ==
    [base |-> base, depth |-> depth, p_rearr |-> p_rearr]

\* get_random_segment: every segment it can return
get_random_segment(size) ==
    IF size = 0 THEN {<<0, 0>>}
    ELSE {segment \in (0..size) \X (0..size) : segment[1] < segment[2]}

\* get_random_rearrangement: every synteny it can return with pair_count
\* swaps of two distinct positions
RECURSIVE get_random_rearrangement(_, _)
get_random_rearrangement(base, pair_count) ==
    IF Len(base) <= 1 \/ pair_count = 0 THEN {base}
    ELSE UNION {
            get_random_rearrangement(
                [k \in DOMAIN base |->
                    IF k = pair[1] THEN base[pair[2]]
                    ELSE IF k = pair[2] THEN base[pair[1]]
                    ELSE base[k]],
                pair_count - 1) :
            pair \in {q \in (DOMAIN base) \X (DOMAIN base) : q[1] # q[2]}}

\* the pair counts choose_pair_count can draw within the budget
PairCounts(p_rearr, pairs) == IF p_rearr = NeverRearranged THEN {0} ELSE 0..pairs

RECURSIVE simulate_losses(_, _)
RECURSIVE simulate_evolution(_, _)
\* simulate_losses: every tree it can return
simulate_losses(sp, budget) ==
    simulate_evolution(sp, budget)
        \cup
    IF sp.base # <<>> /\ budget.losses > 0
    THEN UNION {
            LET root == Event("Loss", sp.base, segment, <<>>)
                rest == EraseSegment(sp.base, segment)
            IN  IF rest # <<>>
                THEN {[root EXCEPT !.children = <<child>>] :
                        child \in simulate_losses(
                            [sp EXCEPT !.base = rest],
                            [budget EXCEPT !.losses = @ - 1])}
                ELSE {root} :
            segment \in get_random_segment(Len(sp.base))}
    ELSE {}

\* the two syntenies handed to the children and the segment of the root
ChildSyntenies(type, base) ==
    IF type = "Duplication"
    THEN {[left |-> Slice(base, segment), right |-> base,
           segment |-> segment] : segment \in get_random_segment(Len(base))}
            \cup
         {[left |-> base, right |-> Slice(base, segment),
           segment |-> segment] : segment \in get_random_segment(Len(base))}
    ELSE {[left |-> base, right |-> base, segment |-> NoSegment]}

\* the ways of sharing a budget between what happens on the left and on the
\* right: [pairs_left, pairs_right, below_left, below_right]
Shares(p_rearr, budget) ==
    {s \in {[pairs_left |-> pl, pairs_right |-> pr,
             below_left |-> [losses |-> ll, pairs |-> ql],
             below_right |-> [losses |-> budget.losses - ll,
                              pairs |-> budget.pairs - pl - pr - ql]] :
                pl \in PairCounts(p_rearr, budget.pairs),
                pr \in PairCounts(p_rearr, budget.pairs),
                ll \in 0..budget.losses,
                ql \in 0..budget.pairs} :
        s.below_right.pairs >= 0}

\* simulate_evolution: every tree it can return
simulate_evolution(sp, budget) ==
    IF sp.base = <<>> THEN {Event("Loss", sp.base, NoSegment, <<>>)}
    ELSE IF sp.depth <= 0 THEN {Event("None", sp.base, NoSegment, <<>>)}
    ELSE UNION {
            UNION {
                UNION {
                    {Event(type, sp.base, cs.segment, <<child_left, child_right>>) :
                        child_left \in UNION {
                            simulate_losses(
                                [sp EXCEPT !.depth = @ - 1, !.base = synteny_left],
                                share.below_left) :
                            synteny_left \in get_random_rearrangement(
                                cs.left, share.pairs_left)},
                        child_right \in UNION {
                            simulate_losses(
                                [sp EXCEPT !.depth = @ - 1, !.base = synteny_right],
                                share.below_right) :
                            synteny_right \in get_random_rearrangement(
                                cs.right, share.pairs_right)}} :
                    share \in Shares(sp.p_rearr, budget)} :
                cs \in ChildSyntenies(type, sp.base)} :
            type \in {"Duplication", "Speciation"}}

(***************************************************************************)
(* Input trees.                                                            *)
(***************************************************************************)
\* most leaves of an input tree
MaxLeaves == 3

\* the ancestral syntenies tried at the root
AncestralSyntenies ==
    {<<>>, <<"a", "b">>, <<"a", "b", "c">>, <<"a", "a", "b">>}

\* a synteny that is a subsequence of no ancestral synteny
OutOfOrder == <<"b", "a">>

Leaf(synteny) == Event("None", synteny, NoSegment, <<>>)

\* Event(TaggedNode) turns a leaf without a name into a full loss
LossLeaf == Event("Loss", <<>>, NoSegment, <<>>)

\* the leaves observed under the ancestral synteny A: every non-empty
\* subsequence, a full loss, and one leaf out of order
ObservedLeaves(A) ==
    {Leaf(s) : s \in Range(generateSubsequences(A)) \ {<<>>}}
        \cup {LossLeaf, Leaf(OutOfOrder)}

\* the same without the subsequences that drop more than one gene
NearLeaves(A) ==
    {l \in ObservedLeaves(A) :
        l.type = "Loss" \/ l.synteny = OutOfOrder
            \/ Len(l.synteny) >= Len(A) - 1}

FewLeaves(A) == {Leaf(A), LossLeaf, Leaf(OutOfOrder)} \ {Leaf(<<>>)}

\* the unlabelled binary subtrees with exactly n leaves
RECURSIVE Subtrees(_, _)
Subtrees(n, leaves) ==
    IF n = 1 THEN leaves
    ELSE UNION {
            {Event(type, <<>>, NoSegment, <<l, r>>) :
                type \in {"Duplication", "Speciation"},
                l \in Subtrees(k, leaves), r \in Subtrees(n - k, leaves)} :
            k \in 1..(n - 1)}

\* the binary trees with n leaves rooted at the ancestral synteny A
Rooted(A, n, leaves) == {[t EXCEPT !.synteny = A] : t \in Subtrees(n, leaves)}

\* the input of the README: one of the erased synteny trees of the paper
PaperSimpleTree ==
    Event("Duplication", <<"x", "x'", "x''">>, NoSegment, <<
        Event("Speciation", <<>>, NoSegment, <<
            Leaf(<<"x", "x'", "x''">>), LossLeaf>>),
        Event("Speciation", <<>>, NoSegment, <<
            Leaf(<<"x">>),
            Event("Duplication", <<>>, NoSegment, <<
                Leaf(<<"x", "x''">>), Leaf(<<"x", "x'">>)>>)>>)>>)

\* a single leaf; two leaves of any kind; up to MaxLeaves leaves that each
\* drop at most one gene
WellFormedTrees ==
    {PaperSimpleTree}
        \cup {Leaf(A) : A \in AncestralSyntenies \ {<<>>}}
        \cup UNION {Rooted(A, 2, ObservedLeaves(A)) : A \in AncestralSyntenies}
        \cup UNION {Rooted(A, n, NearLeaves(A)) :
                        A \in AncestralSyntenies, n \in 2..MaxLeaves}

\* the paths of the nodes of t that have children
RECURSIVE InternalPaths(_, _)
InternalPaths(t, p) ==
    IF t.children = <<>> THEN {}
    ELSE {p} \cup UNION {InternalPaths(t.children[i], Append(p, i)) :
                            i \in DOMAIN t.children}

RECURSIVE ReplaceAt(_, _, _)
ReplaceAt(t, p, n) ==
    IF p = <<>> THEN n
    ELSE [t EXCEPT !.children[Head(p)] = ReplaceAt(@, Tail(p), n)]

\* an internal node made invalid: a forbidden event kind, or a single child
Malform(node, how) ==
    IF how \in {"Loss", "None"} THEN [node EXCEPT !.type = how]
    ELSE IF how = "only-left" THEN [node EXCEPT !.children = <<@[1]>>]
    ELSE [node EXCEPT !.children = <<@[2]>>]

MalformedTrees ==
    UNION {
        {ReplaceAt(t, p, Malform(NodeAt(t, p), how)) :
            p \in InternalPaths(t, <<>>),
            how \in {"Loss", "None", "only-left", "only-right"}} :
        t \in UNION {Rooted(A, n, FewLeaves(A)) :
                    A \in AncestralSyntenies, n \in 2..MaxLeaves}}

\* a longer ancestral synteny, under which one copy of a Duplication can be
\* a segment that then loses genes of its own
LongSynteny == <<"a", "b", "c", "d">>

LongLeaves ==
    {Leaf(LongSynteny), Leaf(<<"a", "c">>), Leaf(<<"b", "d">>),
     Leaf(<<"a", "c", "d">>), LossLeaf}

LongTrees == Rooted(LongSynteny, 2, LongLeaves)

InputTrees == WellFormedTrees \cup LongTrees \cup MalformedTrees

\* the shape both engines expect: leaves are observed syntenies or full
\* losses, every other node is a Duplication or a Speciation with two children
WellFormed(t) ==
    \A n \in Nodes(t) :
        \/ /\ number_of_children(n) = 0
           /\ \/ n.type = "None" /\ n.synteny # <<>>
              \/ n.type = "Loss" /\ n.synteny = <<>>
        \/ /\ number_of_children(n) = 2
           /\ n.type \in {"Duplication", "Speciation"}

(***************************************************************************)
(* Ordered Super-Reconciliation as a state machine: one step per iteration *)
(* of the postorder loop, then the traceback loop.                         *)
(***************************************************************************)
\* the candidates derived from the ancestral synteny
possibilities == generateSubsequences(input.synteny)

\* the CandidateMapping one iteration of the postorder loop fills in
DPCandidates(node, p, cpn) ==
    IF number_of_children(node) = 0
    THEN LeafCandidates(node, possibilities)
    ELSE IF number_of_children(node) = 2
    THEN InternalCandidates(node, possibilities, cpn[Append(p, 1)],
                            cpn[Append(p, 2)])
    ELSE <<>>

\* a switch that rejects no kind
InvalidEventType_never(node) == FALSE

\* an internal node with two children whose kind the switch rejects
InvalidEventType(node) ==
    number_of_children(node) = 2
        /\ node.type \notin {"Speciation", "Duplication"}

\* one iteration of the postorder loop
DPIteration ==
    /\ pc = "dp"
    /\ post_idx <= Len(PostOrder(input, <<>>))
    /\ LET p == PostOrder(input, <<>>)[post_idx]
           node == NodeAt(input, p)
       IN  IF InvalidEventType(node)
           THEN /\ pc' = "failed"
                /\ error' = "InvalidEventType"
                /\ UNCHANGED <<post_idx, candidates_per_node, candidates>>
           ELSE LET mapping == DPCandidates(node, p, candidates_per_node)
                IN  /\ candidates' = mapping
                    /\ IF is_consistent(number_of_children(node), node, candidates')
                       THEN /\ candidates_per_node' =
                                    (p :> candidates') @@ candidates_per_node
                            /\ post_idx' = post_idx + 1
                            /\ UNCHANGED <<pc, error>>
                       ELSE /\ pc' = "failed"
                            /\ error' = "NoValidCandidate"
                            /\ UNCHANGED <<post_idx, candidates_per_node>>
    /\ UNCHANGED <<call_vars, main_vars, algo, input, tree, reference, info, freed_access, scores,
                   params>>

\* the preorder loop.  Touching a freed node is undefined behaviour: the run
\* either goes on as if the node were still there, or crashes.
Traceback ==
    /\ pc = "dp"
    /\ post_idx > Len(PostOrder(input, <<>>))
    /\ LET r == traceback(tree, <<>>, candidates_per_node)
       IN  /\ tree' = r.tree
           /\ freed_access' = r.freed
           /\ pc' \in IF r.freed THEN {"done", "crashed"} ELSE {"done"}
    /\ UNCHANGED <<call_vars, main_vars, algo, input, reference, post_idx, candidates_per_node,
                   candidates, info, error, scores, params>>

(***************************************************************************)
(* Unordered Super-Reconciliation as a state machine: one step per pass.   *)
(***************************************************************************)
Initialize ==
    /\ pc = "initialize"
    /\ IF HasUnaryNode(input)
       THEN /\ pc' = "failed"
            /\ error' = "UnexpectedUnaryNode"
            /\ UNCHANGED info
       ELSE /\ info' = initialize(input, <<>>)
            /\ pc' = "propagate"
            /\ UNCHANGED error
    /\ UNCHANGED <<call_vars, main_vars, algo, input, tree, reference, post_idx,
                   candidates_per_node, candidates, freed_access, scores,
                   params>>

Propagate ==
    /\ pc = "propagate"
    /\ info' = propagate(input, <<>>, info)
    /\ pc' = "resolve"
    /\ UNCHANGED <<call_vars, main_vars, algo, input, tree, reference, post_idx,
                   candidates_per_node, candidates, error, freed_access,
                   scores, params>>

Resolve ==
    /\ pc = "resolve"
    /\ tree' = resolve(tree, <<>>, info)
    /\ pc' = "done"
    /\ UNCHANGED <<call_vars, main_vars, algo, input, reference, post_idx, candidates_per_node,
                   candidates, info, error, freed_access, scores, params>>

\* where the engine named by algo starts
Entry(engine) == IF engine = "unordered" THEN "initialize" ELSE "dp"

\* a run of one engine on one input tree
Init ==
    /\ algo \in {"ordered", "unordered"}
    /\ input \in InputTrees
    /\ tree = input
    /\ reference = input
    /\ pc = Entry(algo)
    /\ post_idx = 1
    /\ candidates_per_node = <<>>
    /\ candidates = <<>>
    /\ info = <<>>
    /\ error = "none"
    /\ freed_access = FALSE
    /\ scores = <<>>
    /\ operands = <<>>
    /\ outcome = <<>>
    /\ MainBeforeLoop
    /\ args = NoArguments
    /\ params = SimulationParams(<<>>, 0, NeverRearranged)

Next == DPIteration \/ Traceback \/ Initialize \/ Propagate \/ Resolve

Spec == Init /\ [][Next]_vars

(***************************************************************************)
(* evaluate: simulate a reference tree, erase a copy of it, reconcile the  *)
(* copy, compare the DL-scores.                                            *)
(***************************************************************************)
\* the grid of simulation parameters: the deepest trees come from a short
\* base without rearrangement
Samples ==
    {sp \in {SimulationParams(generateDummy(base_size), depth, p_rearr) :
                base_size \in 0..MaxBase, depth \in 0..MaxDepth,
                p_rearr \in {50, NeverRearranged}} :
        sp.depth <= 1
            \/ (Len(sp.base) <= ShortBase /\ sp.p_rearr = NeverRearranged)}

InitEvaluate ==
    /\ algo \in {"ordered", "unordered"}
    /\ params \in Samples
    /\ pc = "simulate"
    /\ input = Leaf(<<>>)
    /\ tree = input
    /\ reference = input
    /\ post_idx = 1
    /\ candidates_per_node = <<>>
    /\ candidates = <<>>
    /\ info = <<>>
    /\ error = "none"
    /\ freed_access = FALSE
    /\ scores = <<>>
    /\ operands = <<>>
    /\ outcome = <<>>
    /\ MainBeforeLoop
    /\ args = NoArguments

\* auto reference_tree = simulate_evolution(prng, params)
Simulate ==
    /\ pc = "simulate"
    /\ reference' \in simulate_evolution(
            params,
            [losses |-> MaxSimulatedLosses,
             pairs |-> IF params.p_rearr = NeverRearranged THEN 0
                       ELSE MaxRearrangedPairs])
    /\ pc' = "erase"
    /\ UNCHANGED <<call_vars, main_vars, algo, input, tree, post_idx, candidates_per_node,
                   candidates, info, error, freed_access, scores, params>>

\* auto reconciled_tree = reference_tree; erase_tree(reconciled_tree, begin)
Erase ==
    /\ pc = "erase"
    /\ tree' = erase_tree(reference, TRUE)
    /\ input' = tree'
    /\ pc' = Entry(algo)
    /\ UNCHANGED <<call_vars, main_vars, algo, reference, post_idx, candidates_per_node,
                   candidates, info, error, freed_access, scores, params>>

\* the regression guard on the two DL-scores
Score ==
    /\ pc = "done"
    /\ scores' = [ref |-> get_dl_score(reference), rec |-> get_dl_score(tree)]
    /\ IF scores'.ref < scores'.rec
       THEN pc' = "failed" /\ error' = "LessParsimonious"
       ELSE pc' = "evaluated" /\ UNCHANGED error
    /\ UNCHANGED <<call_vars, main_vars, algo, input, tree, reference, post_idx,
                   candidates_per_node, candidates, info, freed_access,
                   params>>

NextEvaluate ==
    \/ Simulate
    \/ Erase
    \/ DPIteration
    \/ Traceback
    \/ Initialize
    \/ Propagate
    \/ Resolve
    \/ Score

SpecEvaluate == InitEvaluate /\ [][NextEvaluate]_vars

(***************************************************************************)
(* erase: the tree read is erased from its root; erasing the result again  *)
(* is what a second run of the program on its own output does.             *)
(***************************************************************************)
\* deepest nesting of events in a labelled tree
MaxLabelledDepth == 2

\* the leaves of a fully labelled tree: observed syntenies and losses of
\* what was left of a synteny
LabelledLeaves ==
    {Leaf(<<"a">>), Leaf(<<"a", "b">>),
     Event("Loss", <<>>, NoSegment, <<>>),
     Event("Loss", <<"a", "b">>, <<0, 2>>, <<>>)}

\* the fully labelled trees of depth at most depth: every Duplication and
\* Speciation carries a synteny, every Loss node its synteny, its segment
\* and what remains below it
RECURSIVE LabelledTrees(_)
LabelledTrees(depth) ==
    IF depth = 0 THEN LabelledLeaves
    ELSE LET below == LabelledTrees(depth - 1)
         IN  LabelledLeaves
                \cup {Event(type, <<"a", "b">>, NoSegment, <<left, right>>) :
                        type \in {"Duplication", "Speciation"},
                        left \in below, right \in below}
                \cup {Event("Loss", <<"a", "b", "c">>, <<2, 3>>, <<child>>) :
                        child \in below}

InitErase ==
    /\ algo = "ordered"
    /\ reference \in LabelledTrees(MaxLabelledDepth)
    /\ tree = reference
    /\ input = reference
    /\ pc = "erase_tree"
    /\ post_idx = 1
    /\ candidates_per_node = <<>>
    /\ candidates = <<>>
    /\ info = <<>>
    /\ error = "none"
    /\ freed_access = FALSE
    /\ scores = <<>>
    /\ operands = <<>>
    /\ outcome = <<>>
    /\ MainBeforeLoop
    /\ args = NoArguments
    /\ params = SimulationParams(<<>>, 0, NeverRearranged)

\* erase_tree(tree, begin(tree)); input keeps the erased tree
EraseTree ==
    /\ pc = "erase_tree"
    /\ tree' = erase_tree(tree, TRUE)
    /\ input' = tree'
    /\ pc' = "erased"
    /\ UNCHANGED <<call_vars, main_vars, algo, reference, post_idx, candidates_per_node,
                   candidates, info, error, freed_access, scores, params>>

\* erase_tree on the tree a first erasure produced
EraseTreeAgain ==
    /\ pc = "erased"
    /\ tree' = erase_tree(tree, TRUE)
    /\ pc' = "erased_again"
    /\ UNCHANGED <<call_vars, main_vars, algo, input, reference, post_idx, candidates_per_node,
                   candidates, info, error, freed_access, scores, params>>

NextErase == EraseTree \/ EraseTreeAgain

SpecErase == InitErase /\ [][NextErase]_vars

(***************************************************************************)
(* The synteny primitives called on their own: one call per behaviour.     *)
(***************************************************************************)
\* longest synteny handed to a primitive
MaxSyntenyLength == 4

\* longest synteny tried as a target that need not be a subsequence
MaxStrayLength == 2

\* the gene families of the syntenies handed to a primitive
GeneFamilies == {"a", "b", "x"}

\* the syntenies of at most length genes, gene families repeated or not
Syntenies(length) == UNION {[1..k -> GeneFamilies] : k \in 0..length}

\* no engine runs while a primitive is called on its own
EngineIdle ==
    /\ algo = "ordered"
    /\ pc = "idle"
    /\ input = Leaf(<<>>)
    /\ tree = input
    /\ reference = input
    /\ post_idx = 1
    /\ candidates_per_node = <<>>
    /\ candidates = <<>>
    /\ info = <<>>
    /\ error = "none"
    /\ freed_access = FALSE
    /\ scores = <<>>
    /\ params = SimulationParams(<<>>, 0, NeverRearranged)

\* largest finite bound on the lost segments reported
MaxReported == 2

InitSynteny ==
    /\ EngineIdle
    /\ operands \in
            {[op |-> "distanceTo", source |-> source, target |-> target,
              substring |-> substring] :
                source \in Syntenies(MaxSyntenyLength),
                target \in Syntenies(MaxStrayLength),
                substring \in BOOLEAN}
                \cup UNION {
                    {[op |-> "distanceTo", source |-> source,
                      target |-> target, substring |-> substring] :
                        target \in Range(generateSubsequences(source)),
                        substring \in BOOLEAN} :
                    source \in Syntenies(MaxSyntenyLength)}
                \cup {[op |-> "generateSubsequences", source |-> source] :
                        source \in Syntenies(MaxSyntenyLength)}
                \cup UNION {
                    {[op |-> "reconcile", source |-> source,
                      target |-> target, substring |-> substring,
                      max |-> max] :
                        target \in Range(generateSubsequences(source))
                                    \cup Syntenies(MaxStrayLength),
                        substring \in BOOLEAN,
                        max \in {ExtendedNumber(m) : m \in 0..MaxReported}
                                    \cup {positiveInfinity}} :
                    source \in Syntenies(MaxSyntenyLength)}
    /\ outcome = [status |-> "pending"]
    /\ MainBeforeLoop
    /\ args = NoArguments

\* source.distanceTo(target, substring)
DistanceTo ==
    /\ operands.op = "distanceTo"
    /\ outcome.status = "pending"
    /\ outcome' =
            IF reconcile(operands.source, operands.target, operands.substring,
                         positiveInfinity).throws
            THEN [status |-> "threw", error |-> "NotASubsequence"]
            ELSE [status |-> "returned",
                  value |-> distanceTo(operands.source, operands.target,
                                       operands.substring)]
    /\ UNCHANGED <<engine_vars, main_vars, operands>>

\* source.generateSubsequences()
GenerateSubsequences ==
    /\ operands.op = "generateSubsequences"
    /\ outcome.status = "pending"
    /\ outcome' = [status |-> "returned",
                  value |-> generateSubsequences(operands.source)]
    /\ UNCHANGED <<engine_vars, main_vars, operands>>

\* source.reconcile(target, substring, max)
Reconcile ==
    /\ operands.op = "reconcile"
    /\ outcome.status = "pending"
    /\ outcome' =
            IF reconcile(operands.source, operands.target, operands.substring,
                         operands.max).throws
            THEN [status |-> "threw", error |-> "NotASubsequence"]
            ELSE [status |-> "returned",
                  value |-> reconcile(operands.source, operands.target,
                                      operands.substring,
                                      operands.max).lost_segments]
    /\ UNCHANGED <<engine_vars, main_vars, operands>>

NextSynteny == DistanceTo \/ GenerateSubsequences \/ Reconcile

SpecSynteny == InitSynteny /\ [][NextSynteny]_vars

(***************************************************************************)
(* Calls of the arithmetic operators of ExtendedNumber<int>, one per       *)
(* behaviour, and the expression (a + b) - b.  The finite operands stay    *)
(* far from the limits of int, so that the built-in arithmetic is exact.   *)
(***************************************************************************)
MaxMagnitude == 2

ExtendedNumbers ==
    {ExtendedNumber(v) : v \in -MaxMagnitude..MaxMagnitude}
        \cup {positiveInfinity, negativeInfinity}

\* what a caller of an operator sees: a value, or the std::domain_error
OutcomeOf(x) ==
    IF IsUndefined(x)
    THEN [status |-> "threw", error |-> "DomainError"]
    ELSE [status |-> "returned", value |-> x]

InitExtendedNumber ==
    /\ EngineIdle
    /\ operands \in [op : {"+", "-", "*", "/"}, lhs : ExtendedNumbers,
                     rhs : ExtendedNumbers, sum_of : {<<>>}]
    /\ outcome = [status |-> "pending"]
    /\ MainBeforeLoop
    /\ args = NoArguments

\* lhs + rhs
Add ==
    /\ operands.op = "+"
    /\ outcome.status = "pending"
    /\ outcome' = OutcomeOf(ExtAdd(operands.lhs, operands.rhs))
    /\ UNCHANGED <<engine_vars, main_vars, operands>>

\* lhs - rhs
Subtract ==
    /\ operands.op = "-"
    /\ outcome.status = "pending"
    /\ outcome' = OutcomeOf(ExtSub(operands.lhs, operands.rhs))
    /\ UNCHANGED <<engine_vars, main_vars, operands>>

\* lhs * rhs
Multiply ==
    /\ operands.op = "*"
    /\ outcome.status = "pending"
    /\ outcome' = OutcomeOf(ExtMul(operands.lhs, operands.rhs))
    /\ UNCHANGED <<engine_vars, main_vars, operands>>

\* lhs / rhs
Divide ==
    /\ operands.op = "/"
    /\ outcome.status = "pending"
    /\ outcome' = OutcomeOf(ExtDiv(operands.lhs, operands.rhs))
    /\ UNCHANGED <<engine_vars, main_vars, operands>>

\* (a + b) - b: the sum that was returned becomes the left operand of a
\* subtraction of the same b; sum_of remembers a
SubtractBack ==
    /\ operands.op = "+"
    /\ outcome.status = "returned"
    /\ operands' = [op |-> "-", lhs |-> outcome.value, rhs |-> operands.rhs,
                    sum_of |-> <<operands.lhs>>]
    /\ outcome' = [status |-> "pending"]
    /\ UNCHANGED <<engine_vars, main_vars>>

NextExtendedNumber == Add \/ Subtract \/ Multiply \/ Divide \/ SubtractBack

SpecExtendedNumber == InitExtendedNumber /\ [][NextExtendedNumber]_vars

(***************************************************************************)
(* main of evaluate: the parallel loop over the work units, one unit per   *)
(* sample and grid point, handed out dynamically to the threads of the     *)
(* team; the critical construct that stores the measures; the exit.  The   *)
(* evaluation of a unit is taken by its outcome: it returns a dlscore or   *)
(* it throws (SpecEvaluate ends in "evaluated" or in "failed").  The       *)
(* dlscore metric is selected and the duration metric is not.              *)
(*                                                                         *)
(* has_failed is a plain bool that the threads read and write outside of   *)
(* the critical construct.  A read by a thread that is not ordered after   *)
(* the write, through a flush of the critical construct or of the barrier  *)
(* that ends the loop, yields the old or the new value.                    *)
(***************************************************************************)
\* args.sample_size
SampleSize == 2

\* largest number of values of the multivalued parameter, and largest value
GridPoints == 2

\* detail::create_range: min, min + step, ... up to max
RECURSIVE create_range(_, _, _)
create_range(min, max, step) ==
    IF min > max THEN <<>>
    ELSE <<min>> \o create_range(min + step, max, step)

\* operator>>(std::istream&, MultivaluedNumber&): the values read from a
\* single value "v", from a set "{v, ...}", each value pushed back in the
\* order written, and from an interval "[min:max:step]"
MultivaluedNumbers ==
    {<<v>> : v \in 1..GridPoints}
        \cup UNION {[1..n -> 1..GridPoints] : n \in 0..GridPoints}
        \cup {create_range(min, max, step) :
                min \in 1..GridPoints, max \in 1..GridPoints, step \in 1..2}

\* read_arguments: the sample size and the values of one simulation
\* parameter, the depth; the other parameters have a single value
Arguments == [sample_size : {SampleSize}, depth : MultivaluedNumbers]

\* largest dlscore an evaluation returns
MaxDlscore == 1

total_tasks == args.sample_size * Len(args.depth)

\* what if (has_failed) may read in thread t
ReadHasFailed(t) ==
    IF has_failed /\ t \notin synchronised THEN BOOLEAN ELSE {has_failed}

\* the try block around evaluate(...): it returns with sample_info.dlscore
\* set, or throws a std::exception before setting it
EvaluationOutcomes ==
    {[status |-> "threw", dlscore |-> 0]}
        \cup {[status |-> "returned", dlscore |-> score] : score \in 0..MaxDlscore}

\* a critical construct that lets every thread in: a mutant of
\* CanEnterCritical
CanEnterCritical_always(t) == TRUE

\* #pragma omp critical: one thread at a time
CanEnterCritical(t) == critical_owner = NoThread

\* an exit that ignores has_failed: a mutant of ExitStatus
ExitStatus_success(failed) == "EXIT_SUCCESS"

\* if (has_failed) return EXIT_FAILURE; else ... return EXIT_SUCCESS;
ExitStatus(failed) == IF failed THEN "EXIT_FAILURE" ELSE "EXIT_SUCCESS"

InitMain ==
    /\ EngineIdle
    /\ operands = <<>>
    /\ outcome = <<>>
    /\ MainBeforeLoop
    /\ args \in Arguments

\* schedule(dynamic): thread t takes the next iteration and runs the head of
\* the body, if (has_failed) continue;
BeginUnit(t) ==
    /\ main_pc = "parallel_for"
    /\ thread_pc[t] = "next"
    /\ next_task < total_tasks
    /\ next_task' = next_task + 1
    /\ began_failed' = [began_failed EXCEPT ![t] = has_failed]
    /\ \E read \in ReadHasFailed(t) :
        IF read
        THEN UNCHANGED <<thread_pc, sample_params, sample_info>>
        ELSE /\ thread_pc' = [thread_pc EXCEPT ![t] = "evaluate"]
             /\ sample_params' =
                    [sample_params EXCEPT ![t] =
                        args.depth[(next_task % Len(args.depth)) + 1]]
             /\ sample_info' = [sample_info EXCEPT ![t] = [dlscore |-> 0]]
    /\ UNCHANGED <<engine_vars, call_vars, args, main_pc, has_failed, synchronised,
                   flushed, critical_owner, results, find_params_index,
                   performed_tasks, threw, exit_status, output_written>>

\* try { evaluate(...); } catch (const std::exception&) { has_failed = true; }
Evaluate(t) ==
    /\ thread_pc[t] = "evaluate"
    /\ \E o \in EvaluationOutcomes :
        IF o.status = "threw"
        THEN /\ has_failed' = TRUE
             /\ synchronised' = synchronised \cup {t}
             /\ threw' = threw + 1
             /\ UNCHANGED sample_info
        ELSE /\ sample_info' = [sample_info EXCEPT ![t] = [dlscore |-> o.dlscore]]
             /\ UNCHANGED <<has_failed, synchronised, threw>>
    /\ thread_pc' = [thread_pc EXCEPT ![t] = "critical"]
    /\ UNCHANGED <<engine_vars, call_vars, args, main_pc, next_task, sample_params,
                   began_failed, flushed, critical_owner, results,
                   find_params_index, performed_tasks, exit_status,
                   output_written>>

\* entry of #pragma omp critical, with its flush
EnterCritical(t) ==
    /\ thread_pc[t] = "critical"
    /\ CanEnterCritical(t)
    /\ critical_owner' = t
    /\ flushed' = (flushed \/ t \in synchronised)
    /\ synchronised' = IF flushed THEN synchronised \cup {t} ELSE synchronised
    /\ thread_pc' = [thread_pc EXCEPT ![t] = "find_entry"]
    /\ UNCHANGED <<engine_vars, call_vars, args, main_pc, next_task, sample_params,
                   sample_info, began_failed, has_failed, results,
                   find_params_index, performed_tasks, threw, exit_status,
                   output_written>>

\* if (!find_params_index.count(sample_params)) { ... emplace, push_back }
CreateEntry(t) ==
    /\ thread_pc[t] = "find_entry"
    /\ IF sample_params[t] \notin DOMAIN find_params_index
       THEN /\ find_params_index' =
                    find_params_index @@ (sample_params[t] :> Len(results))
            /\ results' = Append(results, [params |-> sample_params[t],
                                           dlscore |-> <<>>])
       ELSE UNCHANGED <<find_params_index, results>>
    /\ thread_pc' = [thread_pc EXCEPT ![t] = "push_back"]
    /\ UNCHANGED <<engine_vars, call_vars, args, main_pc, next_task, sample_params,
                   sample_info, began_failed, has_failed, synchronised,
                   flushed, critical_owner, performed_tasks, threw,
                   exit_status, output_written>>

\* sample_result["dlscore"].push_back(sample_info.dlscore)
PushSample(t) ==
    /\ thread_pc[t] = "push_back"
    /\ results' =
            [results EXCEPT ![find_params_index[sample_params[t]] + 1].dlscore =
                Append(@, sample_info[t].dlscore)]
    /\ thread_pc' = [thread_pc EXCEPT ![t] = "count"]
    /\ UNCHANGED <<engine_vars, call_vars, args, main_pc, next_task, sample_params,
                   sample_info, began_failed, has_failed, synchronised,
                   flushed, critical_owner, find_params_index,
                   performed_tasks, threw, exit_status, output_written>>

\* ++performed_tasks; report_progress(...); and the end of the critical
\* construct
CountTask(t) ==
    /\ thread_pc[t] = "count"
    /\ performed_tasks' = performed_tasks + 1
    /\ critical_owner' =
            IF critical_owner = t THEN NoThread ELSE critical_owner
    /\ thread_pc' = [thread_pc EXCEPT ![t] = "next"]
    /\ UNCHANGED <<engine_vars, call_vars, args, main_pc, next_task, sample_params,
                   sample_info, began_failed, has_failed, synchronised,
                   flushed, results, find_params_index, threw, exit_status,
                   output_written>>

\* the barrier that ends the parallel loop, with its flush
Join ==
    /\ main_pc = "parallel_for"
    /\ next_task = total_tasks
    /\ \A t \in Threads : thread_pc[t] = "next"
    /\ main_pc' = "joined"
    /\ synchronised' = Threads
    /\ UNCHANGED <<engine_vars, call_vars, args, next_task, thread_pc, sample_params,
                   sample_info, began_failed, has_failed, flushed,
                   critical_owner, results, find_params_index,
                   performed_tasks, threw, exit_status, output_written>>

\* if (has_failed) return EXIT_FAILURE; else { output << results; return
\* EXIT_SUCCESS; }
Exit ==
    /\ main_pc = "joined"
    /\ exit_status' = ExitStatus(has_failed)
    /\ output_written' = (exit_status' = "EXIT_SUCCESS")
    /\ main_pc' = "exited"
    /\ UNCHANGED <<engine_vars, call_vars, args, next_task, thread_pc, sample_params,
                   sample_info, began_failed, has_failed, synchronised,
                   flushed, critical_owner, results, find_params_index,
                   performed_tasks, threw>>

ThreadStep(t) ==
    \/ BeginUnit(t)
    \/ Evaluate(t)
    \/ EnterCritical(t)
    \/ CreateEntry(t)
    \/ PushSample(t)
    \/ CountTask(t)

NextMain == (\E t \in Threads : ThreadStep(t)) \/ Join \/ Exit

SpecMain == InitMain /\ [][NextMain]_vars

\* the threads of the team and the initial thread keep running
SpecMainFair == SpecMain /\ WF_vars(NextMain)

(***************************************************************************)
(* Event <-> TaggedNode.  A text (the name of a tagged node, the value of  *)
(* its segment tag) is a sequence of one-character strings; a gene family  *)
(* is one letter.  The tags of a node are a function from the keys present *)
(* to their values.                                                        *)
(***************************************************************************)
Digits == <<"0", "1", "2", "3", "4", "5", "6", "7", "8", "9">>

\* operator<<(std::ostream&, std::size_t): the decimal digits of n
RECURSIVE Decimal(_)
Decimal(n) ==
    IF n < 10 THEN <<Digits[n + 1]>>
    ELSE Decimal(n \div 10) \o <<Digits[(n % 10) + 1]>>

\* operator>>(std::istream&, std::size_t&) on the text from position pos:
\* white space is skipped, then the digits are read; without a digit the
\* value is 0 and the stream fails
RECURSIVE ReadUnsigned(_, _, _, _)
ReadUnsigned(text, pos, value, started) ==
    IF pos <= Len(text) /\ text[pos] = " " /\ ~started
    THEN ReadUnsigned(text, pos + 1, value, started)
    ELSE IF pos <= Len(text) /\ text[pos] \in Range(Digits)
    THEN ReadUnsigned(text, pos + 1,
            10 * value + (CHOOSE v \in 0..9 : Digits[v + 1] = text[pos]), TRUE)
    ELSE [value |-> value, pos |-> pos, fail |-> ~started]

\* segment_tok >> start; segment_tok.ignore(max, '-'); segment_tok >> end;
\* a stream that failed reads nothing more
SegmentOfText(text) ==
    LET start == ReadUnsigned(text, 1, 0, FALSE)
        hyphens == {p \in start.pos..Len(text) : text[p] = "-"}
        after == IF hyphens = {} THEN Len(text) + 1
                 ELSE (CHOOSE p \in hyphens : \A q \in hyphens : p <= q) + 1
        end == ReadUnsigned(text, after, 0, FALSE)
    IN  IF start.fail THEN <<0, 0>> ELSE <<start.value, end.value>>

\* a reading that takes the second number as the last position of the
\* segment: a mutant of EventOfTaggedNode
EventOfTaggedNode_inclusive(tagnode) ==
    LET kind == IF "event" \in DOMAIN tagnode.tags
                THEN CASE tagnode.tags["event"] = "duplication" -> "Duplication"
                       [] tagnode.tags["event"] = "speciation" -> "Speciation"
                       [] tagnode.tags["event"] = "loss" -> "Loss"
                       [] OTHER -> "None"
                ELSE "None"
        synteny == SelectSeq(tagnode.name, LAMBDA c : c # " ")
        type == IF kind = "None" /\ synteny = <<>> THEN "Loss" ELSE kind
        read == SegmentOfText(tagnode.tags["segment"])
    IN  [type |-> type, synteny |-> synteny,
         segment |-> IF "segment" \in DOMAIN tagnode.tags
                        /\ ((type = "Loss" /\ synteny # <<>>)
                            \/ type = "Duplication")
                     THEN <<read[1], read[2] + 1>>
                     ELSE NoSegment]

\* a reading that gives a duplication without segment tag the whole
\* synteny: a mutant of EventOfTaggedNode
EventOfTaggedNode_whole(tagnode) ==
    LET kind == IF "event" \in DOMAIN tagnode.tags
                THEN CASE tagnode.tags["event"] = "duplication" -> "Duplication"
                       [] tagnode.tags["event"] = "speciation" -> "Speciation"
                       [] tagnode.tags["event"] = "loss" -> "Loss"
                       [] OTHER -> "None"
                ELSE "None"
        synteny == SelectSeq(tagnode.name, LAMBDA c : c # " ")
        type == IF kind = "None" /\ synteny = <<>> THEN "Loss" ELSE kind
    IN  [type |-> type, synteny |-> synteny,
         segment |-> IF "segment" \in DOMAIN tagnode.tags
                        /\ ((type = "Loss" /\ synteny # <<>>)
                            \/ type = "Duplication")
                     THEN SegmentOfText(tagnode.tags["segment"])
                     ELSE IF type = "Duplication" THEN <<0, Len(synteny)>>
                     ELSE NoSegment]

\* Event::Event(const TaggedNode&)
EventOfTaggedNode(tagnode) ==
    LET kind == IF "event" \in DOMAIN tagnode.tags
                THEN CASE tagnode.tags["event"] = "duplication" -> "Duplication"
                       [] tagnode.tags["event"] = "speciation" -> "Speciation"
                       [] tagnode.tags["event"] = "loss" -> "Loss"
                       [] OTHER -> "None"
                ELSE "None"
        synteny == SelectSeq(tagnode.name, LAMBDA c : c # " ")
        type == IF kind = "None" /\ synteny = <<>> THEN "Loss" ELSE kind
    IN  [type |-> type, synteny |-> synteny,
         segment |-> IF "segment" \in DOMAIN tagnode.tags
                        /\ ((type = "Loss" /\ synteny # <<>>)
                            \/ type = "Duplication")
                     THEN SegmentOfText(tagnode.tags["segment"])
                     ELSE NoSegment]

\* the genes of a synteny separated by one space
RECURSIVE NameOfSynteny(_)
NameOfSynteny(synteny) ==
    IF Len(synteny) <= 1 THEN synteny
    ELSE <<synteny[1], " ">> \o NameOfSynteny(Tail(synteny))

\* Event::operator TaggedNode() const
TaggedNodeOfEvent(event) ==
    LET kinds == CASE event.type = "Duplication" -> ("event" :> "duplication")
                   [] event.type = "Speciation" -> ("event" :> "speciation")
                   [] event.type = "Loss" -> ("event" :> "loss")
                   [] OTHER -> <<>>
        segments == IF event.segment # NoSegment
                       /\ event.type \in {"Loss", "Duplication"}
                    THEN "segment" :> (Decimal(event.segment[1])
                                        \o <<" ", "-", " ">>
                                        \o Decimal(event.segment[2]))
                    ELSE <<>>
    IN  [name |-> NameOfSynteny(event.synteny), length |-> 0,
         tags |-> kinds @@ segments]

\* largest number written in a segment tag or held by a segment
MaxPosition == 11

\* longest synteny of a converted node
MaxNameLength == 2

\* the tagged nodes read: a name with its genes separated by one space, or
\* made of white space only; an event tag or none; a segment tag "u-v" or
\* "u - v", or none
TaggedNodes ==
    [name : {NameOfSynteny(synteny) : synteny \in Syntenies(MaxNameLength)}
                \cup {<<" ", " ">>},
     length : {0},
     tags : {kinds @@ segments :
                kinds \in {<<>>} \cup {"event" :> kind : kind \in
                    {"duplication", "speciation", "loss", "transfer"}},
                segments \in {<<>>} \cup {"segment" :>
                    (Decimal(u) \o hyphen \o Decimal(v)) :
                        u \in 0..MaxPosition, v \in 0..MaxPosition,
                        hyphen \in {<<"-">>, <<" ", "-", " ">>}}}]

\* the events written: a segment is an interval [first, second)
Events ==
    [type : {"None", "Duplication", "Speciation", "Loss"},
     synteny : Syntenies(MaxNameLength),
     segment : {segment \in (0..MaxPosition) \X (0..MaxPosition) :
                    segment[1] <= segment[2]}]

InitEvent ==
    /\ EngineIdle
    /\ MainBeforeLoop
    /\ args = NoArguments
    /\ operands \in [op : {"Event"}, tagnode : TaggedNodes]
                        \cup [op : {"TaggedNode"}, event : Events]
    /\ outcome = [status |-> "pending"]

\* Event event = tagged_node;
ReadEvent ==
    /\ operands.op = "Event"
    /\ outcome.status = "pending"
    /\ outcome' = [status |-> "returned",
                   value |-> EventOfTaggedNode(operands.tagnode)]
    /\ UNCHANGED <<engine_vars, main_vars, operands>>

\* TaggedNode tagged_node = event;
WriteEvent ==
    /\ operands.op = "TaggedNode"
    /\ outcome.status = "pending"
    /\ outcome' = [status |-> "returned",
                   value |-> TaggedNodeOfEvent(operands.event)]
    /\ UNCHANGED <<engine_vars, main_vars, operands>>

NextEvent == ReadEvent \/ WriteEvent

SpecEvent == InitEvent /\ [][NextEvent]_vars

(***************************************************************************)
(* What the claims are stated with.                                        *)
(***************************************************************************)
\* a run of one engine has ended
Terminal == pc \in {"done", "failed", "crashed"}

\* the exceptions by the error kind their message reports
MalformedTreeErrors == {"InvalidEventType", "UnexpectedUnaryNode"}

InconsistentInputErrors == {"NoValidCandidate"}

\* the synteny a node hands down: for a Loss node, what its loss leaves
Remaining(node) ==
    IF node.type = "Loss" THEN EraseSegment(node.synteny, node.segment)
    ELSE node.synteny

\* part is a contiguous part of whole
IsSegmentOf(part, whole) ==
    \E first \in 0..Len(whole), second \in 0..Len(whole) :
        first <= second /\ Slice(whole, <<first, second>>) = part

\* the subsequence of source at the positions kept
RECURSIVE Pick(_, _, _)
Pick(source, kept, i) ==
    IF i > Len(source) THEN <<>>
    ELSE (IF i \in kept THEN <<source[i]>> ELSE <<>>)
            \o Pick(source, kept, i + 1)

\* the numbers of contiguous segments whose removal turns source into target
LossCounts(source, target) ==
    {Cardinality({i \in DOMAIN source :
                    i \notin kept /\ (i = 1 \/ (i - 1) \in kept)}) :
        kept \in {k \in SUBSET DOMAIN source : Pick(source, k, 1) = target}}

\* the same when only a segment of source is copied first
SegmentLossCounts(source, target) ==
    UNION {LossCounts(Slice(source, segment), target) :
            segment \in get_random_segment(Len(source))}

\* the DL-scores of the valid reconciliations of the subtree at node when
\* node carries synteny X: every assignment of subsequences of X below it,
\* with the loss nodes each edge then needs
RECURSIVE ValidScores(_, _)
RECURSIVE ValidScoresBelow(_, _, _)
ValidScores(node, X) ==
    IF number_of_children(node) = 0
    THEN IF node.type = "Loss" THEN {1}
         ELSE IF node.synteny = X THEN {0} ELSE {}
    ELSE LET full_left == ValidScoresBelow(node.children[1], X, FALSE)
             full_right == ValidScoresBelow(node.children[2], X, FALSE)
         IN  IF node.type = "Speciation"
             THEN {l + r : l \in full_left, r \in full_right}
             ELSE {1 + l + r : l \in full_left, r \in full_right}
                    \cup {1 + l + r :
                            l \in ValidScoresBelow(node.children[1], X, TRUE),
                            r \in full_right}
                    \cup {1 + l + r :
                            l \in full_left,
                            r \in ValidScoresBelow(node.children[2], X, TRUE)}

ValidScoresBelow(child, X, segmental) ==
    IF number_of_children(child) = 0 /\ child.type = "Loss" THEN {1}
    ELSE UNION {
            {losses + below :
                losses \in IF segmental THEN SegmentLossCounts(X, Y)
                           ELSE LossCounts(X, Y),
                below \in ValidScores(child, Y)} :
            Y \in Range(generateSubsequences(X))}

\* the CandidateMapping the dynamic program yields for the subtree t
RECURSIVE d(_)
d(t) ==
    IF number_of_children(t) = 0 THEN LeafCandidates(t, possibilities)
    ELSE InternalCandidates(t, possibilities, d(t.children[1]),
                            d(t.children[2]))

\* the positions, in postorder, of the nodes with two children that carry
\* the kind Loss or None
InvalidIndices(t) ==
    {i \in DOMAIN PostOrder(t, <<>>) :
        LET node == NodeAt(t, PostOrder(t, <<>>)[i])
        IN  number_of_children(node) = 2 /\ node.type \in {"Loss", "None"}}

Min(S) == CHOOSE m \in S : \A n \in S : m <= n

C2_Optimal ==
    (algo = "ordered" /\ pc = "done" /\ WellFormed(input)) =>
        \A score \in ValidScores(input, input.synteny) :
            get_dl_score(tree) <= score

(***************************************************************************)
(* C3                                                                      *)
(***************************************************************************)
\* C3 as stated: on every edge of the ordered output, a Loss parent hands
\* down its synteny less its segment, any other parent its own synteny.
C3_EveryEdge ==
    (algo = "ordered" /\ pc = "done") =>
        \A e \in Edges(tree) : e[2].synteny = Remaining(e[1])

\* the edges below t; segmental: t hangs under a Duplication that copied a
\* segment, with nothing but Loss nodes in between
RECURSIVE EdgesResolved(_, _)
EdgesResolved(t, segmental) ==
    \A i \in DOMAIN t.children :
        LET child == t.children[i]
        IN  /\ IF t.type = "Loss"
               THEN \/ child.synteny = Remaining(t)
                    \/ segmental /\ IsSegmentOf(child.synteny, Remaining(t))
               ELSE \/ child.synteny = t.synteny
                    \/ /\ t.type = "Duplication"
                       /\ child.synteny = Slice(t.synteny, t.segment)
            /\ EdgesResolved(child,
                             IF t.type = "Loss" THEN segmental
                             ELSE t.type = "Duplication"
                                    /\ t.segment # NoSegment)

\* C3 amended: on every edge of the ordered output, a Speciation hands down
\* its own synteny; a Duplication hands down its own synteny or, to one
\* copy, the slice under its segment; a Loss node hands down its synteny
\* less its segment, or, when it hangs under the segmental copy of a
\* Duplication, a contiguous part of that.
C3_EdgesResolved ==
    (algo = "ordered" /\ pc = "done") => EdgesResolved(tree, FALSE)

\* a Duplication whose right copy is a proper segment, and one whose
\* segmental copy lost genes of its own
C3_Witness ==
    /\ algo = "ordered"
    /\ pc = "done"
    /\ tree.type = "Duplication"
    /\ tree.synteny = LongSynteny
    /\ tree.segment = <<0, 3>>
    /\ tree.children[2].type = "Loss"
    /\ tree.children[2].children[1].synteny = <<"a", "c">>

(***************************************************************************)
(* C4                                                                      *)
(***************************************************************************)
\* C4 as stated: every Loss node of the output of either engine has the
\* synteny of its parent and a non-empty segment within bounds.
C4_EveryLoss ==
    pc = "done" =>
        \A e \in Edges(tree) :
            e[2].type = "Loss" =>
                /\ e[2].synteny = e[1].synteny
                /\ 0 <= e[2].segment[1]
                /\ e[2].segment[1] < e[2].segment[2]
                /\ e[2].segment[2] <= Len(e[2].synteny)

\* C4 amended: after either engine has reconciled a well-formed input, every
\* Loss node below the root either has the synteny its parent hands down
\* (the parent's synteny, less the parent's segment when the parent is a
\* Loss node) and a non-empty segment within bounds, or is a full loss the
\* unordered engine left as it was read: childless, with an empty synteny
\* and no segment.
C4_LossNodes ==
    (pc = "done" /\ WellFormed(input)) =>
        \A e \in Edges(tree) :
            e[2].type = "Loss" =>
                \/ /\ e[2].synteny = Remaining(e[1])
                   /\ 0 <= e[2].segment[1]
                   /\ e[2].segment[1] < e[2].segment[2]
                   /\ e[2].segment[2] <= Len(e[2].synteny)
                \/ /\ algo = "unordered"
                   /\ e[2].synteny = <<>>
                   /\ e[2].segment = NoSegment
                   /\ e[2].children = <<>>

\* two losses in a row on one edge of the ordered output
C4_Witness ==
    /\ algo = "ordered"
    /\ pc = "done"
    /\ \E e \in Edges(tree) :
            /\ e[1].type = "Loss"
            /\ e[2].type = "Loss"
            /\ e[2].synteny # e[1].synteny
            /\ e[2].children # <<>>

(***************************************************************************)
(* C5                                                                      *)
(***************************************************************************)
\* C5: every Duplication of the output of either engine has a segment
\* within bounds, and one of its children carries exactly the slice of its
\* synteny under that segment.
C5_EveryDuplication ==
    pc = "done" =>
        \A n \in Nodes(tree) :
            n.type = "Duplication" =>
                /\ 0 <= n.segment[1]
                /\ n.segment[1] <= n.segment[2]
                /\ n.segment[2] <= Len(n.synteny)
                /\ \E i \in DOMAIN n.children :
                        n.children[i].synteny = Slice(n.synteny, n.segment)

(***************************************************************************)
(* C6                                                                      *)
(***************************************************************************)
\* C6: on every edge of the unordered output, the gene families of the
\* parent include those of the child.
C6_GenesInclude ==
    (algo = "unordered" /\ pc = "done") =>
        \A e \in Edges(tree) : GenesOf(e[2].synteny) \subseteq GenesOf(e[1].synteny)

\* a node that took the genes of its parent, above a child with fewer
C6_Witness ==
    /\ algo = "unordered"
    /\ pc = "done"
    /\ \E p \in DOMAIN info : p # <<>> /\ info[p].should_propagate
    /\ \E e \in Edges(tree) :
            /\ e[1].type # "Loss"
            /\ e[2].type = "None"
            /\ GenesOf(e[2].synteny) # GenesOf(e[1].synteny)

(***************************************************************************)
(* C7                                                                      *)
(***************************************************************************)
\* C7: whenever the dynamic program yields +oo for the root under the
\* ancestral synteny affixed to it, the ordered engine fails with the
\* InconsistentInput error.
C7_InfiniteRootCost ==
    (/\ algo = "ordered"
     /\ Terminal
     /\ WellFormed(input)
     /\ isInfinity(d(input)[input.synteny].cost)) =>
        pc = "failed" /\ error \in InconsistentInputErrors

\* a tree with a leaf that no reordering-free history explains
C7_Witness ==
    /\ algo = "ordered"
    /\ pc = "failed"
    /\ error \in InconsistentInputErrors
    /\ WellFormed(input)
    /\ number_of_children(input) = 2
    /\ isInfinity(d(input)[input.synteny].cost)

(***************************************************************************)
(* C8                                                                      *)
(***************************************************************************)
\* C8 as stated: whenever a node with two children carries the kind Loss or
\* None, the ordered engine fails with the MalformedTree error.
C8_InvalidKind ==
    (algo = "ordered" /\ Terminal /\ InvalidIndices(input) # {}) =>
        pc = "failed" /\ error \in MalformedTreeErrors

\* C8 amended: whenever a node with two children carries the kind Loss or
\* None, the ordered engine fails; it fails at the first such node in
\* postorder with the MalformedTree error, unless a node before it has no
\* valid candidate, and then at that node with the InconsistentInput error.
C8_FirstFailure ==
    (algo = "ordered" /\ Terminal /\ InvalidIndices(input) # {}) =>
        /\ pc = "failed"
        /\ post_idx <= Min(InvalidIndices(input))
        /\ error \in MalformedTreeErrors
                <=> post_idx = Min(InvalidIndices(input))
        /\ error \in InconsistentInputErrors
                <=> post_idx < Min(InvalidIndices(input))

\* the switch reached a Loss node with two children, below the root
C8_Witness ==
    /\ algo = "ordered"
    /\ pc = "failed"
    /\ error = "InvalidEventType"
    /\ post_idx < Len(PostOrder(input, <<>>))
    /\ NodeAt(input, PostOrder(input, <<>>)[post_idx]).type = "Loss"

(***************************************************************************)
(* C9                                                                      *)
(***************************************************************************)
\* C9: both engines reject, with the MalformedTree error, every input tree
\* that has a node with exactly one child.
C9_UnaryRejected ==
    (Terminal /\ HasUnaryNode(input)) =>
        pc = "failed" /\ error \in MalformedTreeErrors

(***************************************************************************)
(* C10                                                                     *)
(***************************************************************************)
\* C10 as stated: on the simple tree of the paper the ordered engine yields
\* a tree of DL-score 2.
C10_ScoreTwo ==
    (algo = "ordered" /\ pc = "done" /\ input = PaperSimpleTree) =>
        get_dl_score(tree) = 2

\* C10 amended: on the simple tree of the paper the ordered engine yields a
\* tree of DL-score 5: the two duplications, the full loss of the input, and
\* two segmental losses (of x' x'' above the leaf x, of x' above the leaf
\* x x'').
C10_ScoreFive ==
    (algo = "ordered" /\ pc = "done" /\ input = PaperSimpleTree) =>
        /\ get_dl_score(tree) = 5
        /\ Cardinality({p \in DOMAIN candidates_per_node :
                            NodeAt(input, p).type = "Duplication"}) = 2
        /\ tree.children[2].children[1].type = "Loss"
        /\ tree.children[2].children[1].segment = <<1, 3>>
        /\ tree.children[2].children[2].children[1].type = "Loss"
        /\ tree.children[2].children[2].children[1].segment = <<1, 2>>

\* the run on the simple tree of the paper has ended
C10_Witness ==
    /\ algo = "ordered"
    /\ pc = "done"
    /\ input = PaperSimpleTree
    /\ tree.children[2].children[2].segment = <<0, 2>>

(***************************************************************************)
(* C11                                                                     *)
(***************************************************************************)
\* the nodes of t that have children, the root left out
InnerNodes(t) ==
    {n \in UNION {Nodes(t.children[i]) : i \in DOMAIN t.children} :
        n.children # <<>>}

\* C11: after erasure from the root of a fully labelled tree, every node
\* with children other than the root has an empty synteny, every leaf that
\* is not a loss keeps the synteny it had, and every Loss node left is a
\* leaf with an empty synteny.
C11_Erased ==
    pc = "erased" =>
        /\ \A n \in InnerNodes(tree) : n.synteny = <<>>
        /\ \A n \in Nodes(tree) :
                n.type = "Loss" => n.children = <<>> /\ n.synteny = <<>>
        /\ {n \in Nodes(tree) : n.type = "None"}
                = {n \in Nodes(reference) : n.type = "None"}
        /\ reference.type # "Loss" => tree.synteny = reference.synteny

\* a labelled tree with two losses in a row on one side of the root and a
\* labelled Speciation on the other
C11_Witness ==
    /\ pc = "erased"
    /\ reference.type = "Duplication"
    /\ reference.children[1].type = "Loss"
    /\ reference.children[1].children # <<>>
    /\ reference.children[1].children[1].type = "Loss"
    /\ reference.children[1].children[1].synteny # <<>>
    /\ reference.children[2].type = "Speciation"
    /\ tree.children[1].synteny = <<>>
    /\ tree.children[2].synteny = <<>>

(***************************************************************************)
(* C12                                                                     *)
(***************************************************************************)
\* C12: erasing the outcome of an erasure gives the same tree.
C12_Idempotent ==
    pc = "erased_again" => tree = input

\* the second erasure ran on a tree the first one had changed
C12_Witness ==
    /\ pc = "erased_again"
    /\ input # reference
    /\ reference.type = "Loss"
    /\ input.type \in {"Duplication", "Speciation"}

(***************************************************************************)
(* C13                                                                     *)
(***************************************************************************)
\* every contiguous part of source, the empty one included
Substrings(source) ==
    {Slice(source, <<first, second>>) :
        first \in 0..Len(source), second \in 0..Len(source)}

\* target can be had from source by removing genes
IsSubsequence(target, source) == LossCounts(source, target) # {}

\* the least number of contiguous segments to remove from source, or from
\* some contiguous part of it when substring is set, to be left with target
MinimalLosses(source, target, substring) ==
    Min(IF substring
        THEN UNION {LossCounts(part, target) : part \in Substrings(source)}
        ELSE LossCounts(source, target))

\* a call of distanceTo on a subsequence of the source has returned
DistanceReturned ==
    /\ operands.op = "distanceTo"
    /\ outcome.status = "returned"
    /\ IsSubsequence(operands.target, operands.source)

\* C13: for every synteny source, gene families repeated or not, and every
\* subsequence target of it, distanceTo returns the least number of
\* segmental losses that turn source (or, in substring mode, some substring
\* of source) into target.
C13_Minimal ==
    DistanceReturned =>
        outcome.value = MinimalLosses(operands.source, operands.target,
                                     operands.substring)

(***************************************************************************)
(* C14                                                                     *)
(***************************************************************************)
\* C14 as stated: the distance from source to a subsequence target is 0 if
\* and only if source = target, in total mode and in substring mode alike.
C14_ZeroIffEqual ==
    DistanceReturned =>
        (outcome.value = 0 <=> operands.source = operands.target)

\* no gene family occurs twice in synteny
NoRepeat(synteny) == Cardinality(Range(synteny)) = Len(synteny)

\* C14 amended: in total mode the distance from source to a subsequence
\* target is 0 if and only if source = target.  In substring mode it is 0
\* when source = target, it is 0 only when target is a contiguous part of
\* source, and it is 0 for every contiguous part of a source in which no
\* gene family occurs twice.
C14_ZeroIffPart ==
    DistanceReturned =>
        IF ~operands.substring
        THEN outcome.value = 0 <=> operands.source = operands.target
        ELSE /\ operands.source = operands.target => outcome.value = 0
             /\ outcome.value = 0 =>
                    IsSegmentOf(operands.target, operands.source)
             /\ (NoRepeat(operands.source)
                    /\ IsSegmentOf(operands.target, operands.source)) =>
                        outcome.value = 0

\* substring mode gave 0 for a proper part in the middle of the source
C14_Witness ==
    /\ DistanceReturned
    /\ operands.substring
    /\ outcome.value = 0
    /\ Len(operands.source) = 4
    /\ operands.target = SubSeq(operands.source, 2, 3)

(***************************************************************************)
(* C15                                                                     *)
(***************************************************************************)
\* 2 to the power n
RECURSIVE Pow2(_)
Pow2(n) == IF n = 0 THEN 1 ELSE 2 * Pow2(n - 1)

\* the enumeration of a synteny has returned
SubsequencesReturned ==
    operands.op = "generateSubsequences" /\ outcome.status = "returned"

\* C15 as stated: the enumeration of a synteny of length n returns exactly
\* 2^n subsequences, pairwise distinct, each in the order of the source.
C15_AllDistinct ==
    SubsequencesReturned =>
        /\ Len(outcome.value) = Pow2(Len(operands.source))
        /\ \A i, j \in DOMAIN outcome.value :
                i # j => outcome.value[i] # outcome.value[j]
        /\ \A i \in DOMAIN outcome.value :
                IsSubsequence(outcome.value[i], operands.source)

\* C15 amended: the enumeration of a synteny of length n returns a list of
\* exactly 2^n syntenies, each a subsequence in the order of the source, and
\* every subsequence of the source is in the list; its entries are pairwise
\* distinct if and only if no gene family occurs twice in the source.
C15_OnePerSelection ==
    SubsequencesReturned =>
        /\ Len(outcome.value) = Pow2(Len(operands.source))
        /\ \A i \in DOMAIN outcome.value :
                IsSubsequence(outcome.value[i], operands.source)
        /\ \A kept \in SUBSET DOMAIN operands.source :
                \E i \in DOMAIN outcome.value :
                    outcome.value[i] = Pick(operands.source, kept, 1)
        /\ (\A i, j \in DOMAIN outcome.value :
                i # j => outcome.value[i] # outcome.value[j])
                <=> NoRepeat(operands.source)

\* the enumeration of a synteny with a repeated gene family: 16 entries,
\* fewer distinct ones
C15_Witness ==
    /\ SubsequencesReturned
    /\ Len(operands.source) = 4
    /\ ~NoRepeat(operands.source)
    /\ Cardinality(Range(outcome.value)) < Len(outcome.value)

(***************************************************************************)
(* C16                                                                     *)
(***************************************************************************)
\* a call of an arithmetic operator has ended
Operated == operands.op \in {"+", "-", "*", "/"} /\ outcome.status # "pending"

IsZero(x) == ~x.infinity_flag /\ x.value = 0

\* the operand combinations without a value in the extended reals
UndefinedCombination(op, lhs, rhs) ==
    CASE op = "+" -> \/ isPositiveInfinity(lhs) /\ isNegativeInfinity(rhs)
                     \/ isNegativeInfinity(lhs) /\ isPositiveInfinity(rhs)
      [] op = "-" -> \/ isPositiveInfinity(lhs) /\ isPositiveInfinity(rhs)
                     \/ isNegativeInfinity(lhs) /\ isNegativeInfinity(rhs)
      [] op = "*" -> \/ IsZero(lhs) /\ isInfinity(rhs)
                     \/ isInfinity(lhs) /\ IsZero(rhs)
      [] op = "/" -> \/ IsZero(rhs)
                     \/ isInfinity(lhs) /\ isInfinity(rhs)

\* C16: an arithmetic operation on two extended numbers fails with
\* DomainError exactly when the operands are (+inf)+(-inf) in either order,
\* (+inf)-(+inf), (-inf)-(-inf), 0*(+-inf) in either order, a division by 0
\* or inf/inf, and returns a finite or infinite value for every other pair.
C16_DomainError ==
    Operated =>
        IF UndefinedCombination(operands.op, operands.lhs, operands.rhs)
        THEN outcome = [status |-> "threw", error |-> "DomainError"]
        ELSE /\ outcome.status = "returned"
             /\ outcome.value.infinity_flag => outcome.value.value \in {-1, 1}

\* a product 0 * (-inf) was refused, and a quotient by an infinity returned 0
C16_Witness ==
    /\ Operated
    /\ \/ /\ operands.op = "*"
          /\ IsZero(operands.lhs)
          /\ isNegativeInfinity(operands.rhs)
          /\ outcome.status = "threw"
       \/ /\ operands.op = "/"
          /\ isInfinity(operands.lhs)
          /\ IsZero(operands.rhs)
          /\ outcome.status = "threw"

(***************************************************************************)
(* C17                                                                     *)
(***************************************************************************)
\* the subtraction of (a + b) - b has ended
SubtractedBack == operands.sum_of # <<>> /\ outcome.status # "pending"

\* C17 as stated: whenever a + b is defined, (a + b) - b is defined and
\* equals a.
C17_EveryPair ==
    SubtractedBack =>
        /\ outcome.status = "returned"
        /\ ExtEq(outcome.value, operands.sum_of[1])

\* C17 amended: whenever a + b is defined and b is finite, (a + b) - b is
\* defined and equals a; whenever a + b is defined and b is infinite,
\* (a + b) - b fails with DomainError.
C17_FiniteSubtrahend ==
    SubtractedBack =>
        IF isInfinity(operands.rhs)
        THEN outcome = [status |-> "threw", error |-> "DomainError"]
        ELSE /\ outcome.status = "returned"
             /\ ExtEq(outcome.value, operands.sum_of[1])

\* (-inf + b) - b gave -inf back for a finite non-zero b
C17_Witness ==
    /\ SubtractedBack
    /\ isNegativeInfinity(operands.sum_of[1])
    /\ ~isInfinity(operands.rhs)
    /\ operands.rhs.value # 0
    /\ outcome.status = "returned"
    /\ isNegativeInfinity(outcome.value)

(***************************************************************************)
(* C18                                                                     *)
(***************************************************************************)
\* the positions of a thread inside the critical construct
InsideCritical == {"find_entry", "push_back", "count"}

ThreadsInside == {t \in Threads : thread_pc[t] \in InsideCritical}

\* a step that changes results, find_params_index or performed_tasks is a
\* step of the one thread that is inside the critical construct
ModifiedInside ==
    <<results, find_params_index, performed_tasks>>'
            # <<results, find_params_index, performed_tasks>>
        => \E t \in Threads :
            /\ ThreadsInside = {t}
            /\ critical_owner = t
            /\ thread_pc'[t] # thread_pc[t]
            /\ \A u \in Threads \ {t} : thread_pc'[u] = thread_pc[u]

\* C18: results, find_params_index and performed_tasks are modified only by
\* a thread inside the critical construct, and at most one thread is inside
\* it at any time, whatever the interleaving of the work units.
C18_CriticalOnly ==
    /\ [](Cardinality(ThreadsInside) <= 1)
    /\ [][ModifiedInside]_vars

\* a thread is about to count its unit inside the critical construct while
\* another one, its evaluation done, waits at the entry
C18_Witness ==
    \E t \in Threads, u \in Threads :
        /\ t # u
        /\ thread_pc[t] = "count"
        /\ thread_pc[u] = "critical"
        /\ Len(results) > 0

(***************************************************************************)
(* C19                                                                     *)
(***************************************************************************)
\* C19: a work unit that begins once has_failed is set is a no-op: its
\* thread goes on to the next iteration without evaluating and without
\* entering the critical construct, so that it changes neither results nor
\* performed_tasks.
C19_NoOp ==
    \A t \in Threads : began_failed[t] => thread_pc[t] = "next"

(***************************************************************************)
(* C20                                                                     *)
(***************************************************************************)
\* C20: if an evaluation of the run threw, the output file is never written
\* and, the remaining work units drained, the process exits with
\* EXIT_FAILURE.
C20_FailureExit ==
    /\ [](threw > 0 => ~output_written /\ exit_status # "EXIT_SUCCESS")
    /\ (threw > 0 ~> (main_pc = "exited" /\ exit_status = "EXIT_FAILURE"))

\* a run in which an evaluation threw, every unit was handed out, the one
\* that threw was counted, and the process exited
C20_Witness ==
    /\ threw > 0
    /\ next_task = total_tasks
    /\ performed_tasks > 0
    /\ main_pc = "exited"
    /\ exit_status = "EXIT_FAILURE"
    /\ ~output_written

(***************************************************************************)
(* C21                                                                     *)
(***************************************************************************)
\* main returned EXIT_SUCCESS, the output written
Succeeded ==
    main_pc = "exited" /\ exit_status = "EXIT_SUCCESS" /\ output_written

\* C21: when a run of the evaluator succeeds, every object of the output
\* holds a dlscore array of exactly sample_size measures.
C21_SampleSize ==
    Succeeded =>
        \A i \in 1..Len(results) :
            Len(results[i].dlscore) = args.sample_size

(***************************************************************************)
(* C22                                                                     *)
(***************************************************************************)
\* a tagged node was converted to an event that takes a segment, and the
\* node had a segment tag
SegmentRead ==
    /\ operands.op = "Event"
    /\ outcome.status = "returned"
    /\ "segment" \in DOMAIN operands.tagnode.tags
    /\ \/ outcome.value.type = "Duplication"
       \/ outcome.value.type = "Loss" /\ outcome.value.synteny # <<>>

\* an event with a segment was converted to a tagged node
SegmentWritten ==
    /\ operands.op = "TaggedNode"
    /\ outcome.status = "returned"
    /\ operands.event.type \in {"Loss", "Duplication"}
    /\ operands.event.segment # NoSegment

\* the texts "u-v" and "u - v"
TagTexts(u, v) ==
    {Decimal(u) \o hyphen \o Decimal(v) : hyphen \in {<<"-">>, <<" ", "-", " ">>}}

DuplicationRead ==
    /\ operands.op = "Event"
    /\ outcome.status = "returned"
    /\ "event" \in DOMAIN operands.tagnode.tags
    /\ operands.tagnode.tags["event"] = "duplication"
    /\ "segment" \notin DOMAIN operands.tagnode.tags

C24_AtMostMax ==
    /\ operands.op = "reconcile"
    /\ outcome.status = "returned"
    /\ ~isInfinity(operands.max)
    => Len(outcome.value) <= operands.max.value

(***************************************************************************)
(* C25.  Pass 1 of Unordered Super-Reconciliation: which internal nodes    *)
(* are marked should_propagate.                                            *)
(***************************************************************************)
\* the state between pass 1 and pass 2: info is what initialize returned
AfterInitialize == algo = "unordered" /\ pc = "propagate"

\* both children have fewer genes than the node
BothSmaller(p) ==
    /\ info[Append(p, 1)].genes # info[p].genes
    /\ info[Append(p, 2)].genes # info[p].genes

BothPropagable(p) ==
    /\ info[Append(p, 1)].should_propagate
    /\ info[Append(p, 2)].should_propagate

\* each child has fewer genes than the node or is marked propagable
EachSmallerOrPropagable(p) ==
    \A i \in 1..2 :
        \/ info[Append(p, i)].genes # info[p].genes
        \/ info[Append(p, i)].should_propagate

\* a Duplication with a child that is a Loss or is marked propagable
DuplicationOverLossOrPropagable(p) ==
    /\ NodeAt(input, p).type = "Duplication"
    /\ \E i \in 1..2 :
        \/ NodeAt(input, Append(p, i)).type = "Loss"
        \/ info[Append(p, i)].should_propagate

\* each child is a Loss or is marked propagable
EachLossOrPropagable(p) ==
    \A i \in 1..2 :
        \/ NodeAt(input, Append(p, i)).type = "Loss"
        \/ info[Append(p, i)].should_propagate

\* C25 as stated: after pass 1 an internal node is marked should_propagate
\* if and only if both children have fewer genes than it, or both children
\* are marked propagable, or it is a Duplication with a child that is a Loss
\* or propagable, or each child is a Loss or propagable.
C25_FourConditions ==
    AfterInitialize =>
        \A p \in InternalPaths(input, <<>>) :
            info[p].should_propagate <=>
                \/ BothSmaller(p)
                \/ BothPropagable(p)
                \/ DuplicationOverLossOrPropagable(p)
                \/ EachLossOrPropagable(p)

\* C25 as amended: after pass 1 an internal node is marked should_propagate
\* if and only if each child has fewer genes than it or is marked
\* propagable, or it is a Duplication with a child that is a Loss or
\* propagable, or each child is a Loss or propagable.
C25_EachChild ==
    AfterInitialize =>
        \A p \in InternalPaths(input, <<>>) :
            info[p].should_propagate <=>
                \/ EachSmallerOrPropagable(p)
                \/ DuplicationOverLossOrPropagable(p)
                \/ EachLossOrPropagable(p)

\* pass 1 marked a Speciation with one smaller child that is not propagable
\* and one propagable child that has all of its genes, and left another
\* internal node unmarked
C25_Witness ==
    /\ AfterInitialize
    /\ \E p \in InternalPaths(input, <<>>) :
        /\ info[p].should_propagate
        /\ NodeAt(input, p).type = "Speciation"
        /\ ~BothSmaller(p)
        /\ ~BothPropagable(p)
        /\ ~EachLossOrPropagable(p)
    /\ \E p \in InternalPaths(input, <<>>) : ~info[p].should_propagate

(***************************************************************************)
(* C26.  The traceback of Ordered Super-Reconciliation at a parent whose   *)
(* synteny is empty.                                                       *)
(***************************************************************************)
\* the synteny resolve_losses takes a parent to have: for a Loss node, its
\* synteny once its own segment is lost
SyntenyOfParent(node) ==
    IF node.type = "Loss" THEN EraseSegment(node.synteny, node.segment)
    ELSE node.synteny

\* the traceback has stopped, with tree as it left it
TracebackOver == algo = "ordered" /\ pc \in {"done", "crashed"}

\* C26: when the traceback of Ordered Super-Reconciliation is over, every
\* node whose synteny (for a Loss node: its synteny with its own segment
\* removed) is empty has no descendants left and is of kind Loss.
C26_EmptyParentCut ==
    TracebackOver =>
        \A node \in Nodes(tree) :
            SyntenyOfParent(node) = <<>> =>
                /\ number_of_children(node) = 0
                /\ node.type = "Loss"

\* a Loss node that the traceback put above a child, that lost the whole
\* synteny of its parent, and whose child was then discarded
C26_Witness ==
    /\ TracebackOver
    /\ \E n \in Nodes(tree) :
        /\ n.type = "Loss"
        /\ n.synteny # <<>>
        /\ SyntenyOfParent(n) = <<>>
        /\ number_of_children(n) = 0
        /\ n \notin Nodes(input)

(***************************************************************************)
(* C27.  Both engines leave the observed leaves alone.                     *)
(***************************************************************************)
\* the leaves of a tree, from left to right
RECURSIVE LeavesOf(_)
RECURSIVE LeavesBelow(_, _)
LeavesOf(t) == IF number_of_children(t) = 0 THEN <<t>> ELSE LeavesBelow(t, 1)

LeavesBelow(t, i) ==
    IF i > Len(t.children) THEN <<>>
    ELSE LeavesOf(t.children[i]) \o LeavesBelow(t, i + 1)

\* the leaves that carry an observed synteny
ObservedLeavesOf(t) ==
    SelectSeq(LeavesOf(t), LAMBDA leaf : leaf.synteny # <<>>)

\* the leaves are found among the others, in the same
\* order, each with its synteny and its event kind
RECURSIVE FoundAmong(_, _)
FoundAmong(leaves, others) ==
    IF leaves = <<>> THEN TRUE
    ELSE IF others = <<>> THEN FALSE
    ELSE IF /\ Head(leaves).synteny = Head(others).synteny
            /\ Head(leaves).type = Head(others).type
         THEN FoundAmong(Tail(leaves), Tail(others))
         ELSE FoundAmong(leaves, Tail(others))

\* C27: when either engine has succeeded, every leaf of the input that
\* carries a non-empty synteny is still a leaf of the output, with the same
\* synteny and the same event kind.
C27_ObservedLeavesKept ==
    pc = "done" => FoundAmong(ObservedLeavesOf(input), LeavesOf(tree))

\* an engine succeeded on a tree with two observed leaves at least and
\* rewrote the tree around them
C27_Witness ==
    /\ pc = "done"
    /\ Len(ObservedLeavesOf(input)) >= 2
    /\ \E node \in Nodes(tree) :
        node.type = "Loss" /\ number_of_children(node) = 1

(***************************************************************************)
(* C28.  The traceback and the nodes erase_children freed.                 *)
(***************************************************************************)
\* C28: in no run of Ordered Super-Reconciliation does the traceback read
\* or write a node that it has discarded with the children of a node whose
\* synteny is empty.
C28_NoFreedAccess == algo = "ordered" => ~freed_access

(***************************************************************************)
(* C29.  The DL-score of the output of Ordered Super-Reconciliation and    *)
(* the optimum of the dynamic program.                                     *)
(***************************************************************************)
\* the number of Loss leaves of a tree
LossLeavesOf(t) ==
    Len(SelectSeq(LeavesOf(t), LAMBDA leaf : leaf.type = "Loss"))

\* d(root, A): the cost the dynamic program recorded for the root under the
\* ancestral synteny
RootOptimum == candidates_per_node[<<>>][input.synteny].cost

OrderedSucceeded == algo = "ordered" /\ pc = "done"

Binary(t) == \A node \in Nodes(t) : number_of_children(node) \in {0, 2}

\* two children under every Duplication and Speciation, one at most under
\* every Loss
ArityByKind(t) ==
    \A node \in Nodes(t) :
        /\ node.type \in {"Duplication", "Speciation"} =>
                number_of_children(node) = 2
        /\ node.type = "Loss" => number_of_children(node) <= 1

====
